---------------------------- MODULE Spec2Model ----------------------------
(***************************************************************************)
(* A model of the command execution engine of src/terminal.py              *)
(* (class PythonTerminal): tokenizing, alias expansion, built-in dispatch, *)
(* the system fallback and the session state.                              *)
(*                                                                         *)
(* Text is modelled by TLA+ strings, read character by character with      *)
(* SubSeq.  Text that only the host can produce (a process table, the      *)
(* message of an exception) is a string in square brackets, such as        *)
(* "[stdout]".                                                             *)
(*                                                                         *)
(* The first sections model what the code calls in Python's library (str,  *)
(* shlex, os.path, os, shutil) and the host filesystem under it; the       *)
(* sections after them follow src/terminal.py handler by handler.          *)
(*                                                                         *)
(* Spec is the terminal under one caller, each call one step.  FallbackSpec *)
(* runs the system fallback in steps of time, SuggestSpec adds the calls   *)
(* of get_command_suggestions, HistorySpec starts from long histories, and *)
(* ServerSpec runs the calls of two server threads in two steps each, and  *)
(* TableSpec makes runs of three calls on the alias table.                 *)
(*                                                                         *)
(* An operator that needs a computed value more than once takes it as a    *)
(* parameter of a helper operator (named ...With, ...At, ...Of) instead of *)
(* naming it in a LET, which keeps TLC's coverage statistics small.        *)
(***************************************************************************)
EXTENDS Naturals, Integers, Sequences, FiniteSets, TLC

(***************************************************************************)
(* Python str primitives.                                                  *)
(***************************************************************************)
\* s[m-1:n]: the characters m..n of s that exist
Sub(s, m, n) ==
    SubSeq(s, IF m < 1 THEN 1 ELSE m, IF n > Len(s) THEN Len(s) ELSE n)

Ch(s, i) == Sub(s, i, i)

Drop(s, n) == Sub(s, n + 1, Len(s))

Take(s, n) == Sub(s, 1, n)

StartsWith(s, p) == Len(p) <= Len(s) /\ Sub(s, 1, Len(p)) = p

EndsWith(s, p) == Len(p) <= Len(s) /\ Sub(s, Len(s) - Len(p) + 1, Len(s)) = p

\* c in s, for a single character c
HasChar(s, c) == \E i \in 1..Len(s) : Sub(s, i, i) = c

\* s.find(c), counted from 1: the first index of the character c in s, or
\* Len(s) + 1 when s has none
Find(s, c) ==
    CHOOSE i \in 1..(Len(s) + 1) :
        /\ i <= Len(s) => Sub(s, i, i) = c
        /\ \A j \in 1..(i - 1) : Sub(s, j, j) # c

\* s.rfind(c), counted from 1: the last index of the character c in s, or 0
RFind(s, c) ==
    CHOOSE i \in 0..Len(s) :
        /\ i >= 1 => Sub(s, i, i) = c
        /\ \A j \in (i + 1)..Len(s) : Sub(s, j, j) # c

Whitespace == {" ", "\t", "\n", "\r"}

\* the index of the first character of s that is not in cs (Len(s) + 1: none)
FirstNotIn(s, cs) ==
    CHOOSE i \in 1..(Len(s) + 1) :
        /\ i <= Len(s) => Sub(s, i, i) \notin cs
        /\ \A j \in 1..(i - 1) : Sub(s, j, j) \in cs

\* the index of the last character of s that is not in cs (0: none)
LastNotIn(s, cs) ==
    CHOOSE i \in 0..Len(s) :
        /\ i >= 1 => Sub(s, i, i) \notin cs
        /\ \A j \in (i + 1)..Len(s) : Sub(s, j, j) \in cs

\* s.strip(cs)
StripChars(s, cs) == Sub(s, FirstNotIn(s, cs), LastNotIn(s, cs))

\* s.strip()
Strip(s) == StripChars(s, Whitespace)

\* s.rstrip(cs)
RStripChars(s, cs) == Sub(s, 1, LastNotIn(s, cs))

UpperLetters == "ABCDEFGHIJKLMNOPQRSTUVWXYZ"

LowerLetters == "abcdefghijklmnopqrstuvwxyz"

\* the characters str.lower() changes
Uppers == {Sub(UpperLetters, i, i) : i \in 1..Len(UpperLetters)}

LowerCh(c) == IF c \in Uppers THEN Ch(LowerLetters, Find(UpperLetters, c)) ELSE c

RECURSIVE Lower(_)
\* s.lower()
Lower(s) == IF s = "" THEN "" ELSE LowerCh(Sub(s, 1, 1)) \o Lower(Drop(s, 1))

RECURSIVE Join(_, _)
\* sep.join(parts)
Join(sep, parts) ==
    IF parts = <<>> THEN ""
    ELSE IF Len(parts) = 1 THEN parts[1]
    ELSE parts[1] \o sep \o Join(sep, Tail(parts))

RECURSIVE SplitOn(_, _, _)
\* s.split(c): the pieces of s between the occurrences of the character c,
\* after the pieces found so far
SplitOn(s, c, found) ==
    IF ~HasChar(s, c) THEN Append(found, s)
    ELSE SplitOn(Sub(s, Find(s, c) + 1, Len(s)), c,
                 Append(found, Sub(s, 1, Find(s, c) - 1)))

\* the two halves of s at index i, which holds the separator
HalvesAt(s, i) == <<Sub(s, 1, i - 1), Sub(s, i + 1, Len(s))>>

\* s.split(c, 1), for s containing c
Split1(s, c) == HalvesAt(s, Find(s, c))

Front(seq) == SubSeq(seq, 1, Len(seq) - 1)

Last(seq) == seq[Len(seq)]

InSeq(x, seq) == \E i \in 1..Len(seq) : seq[i] = x

(***************************************************************************)
(* shlex.split(s): POSIX mode, whitespace_split, no comment characters.    *)
(* The lexer state st is " " (between tokens), "a" (in a word), a quote    *)
(* character (inside that quote) or "\\" (after an escape character, with  *)
(* esc the state to return to).  started tells a token is open, so that a  *)
(* quoted empty string is a token and a run of spaces is not.              *)
(***************************************************************************)
Quotes == {"'", "\""}

Escape == "\\"

EscapedQuotes == {"\""}

ParseOk(toks) == [ok |-> TRUE, parts |-> toks, msg |-> ""]

ParseFail(m) == [ok |-> FALSE, parts |-> <<>>, msg |-> m]

RECURSIVE Lex(_, _, _, _, _, _, _)
Lex(s, i, st, esc, tok, started, acc) ==
    IF i > Len(s)
    THEN IF st \in Quotes THEN ParseFail("No closing quotation")
         ELSE IF st = Escape THEN ParseFail("No escaped character")
         ELSE ParseOk(IF started THEN Append(acc, tok) ELSE acc)
    ELSE LET c == Sub(s, i, i) IN
         IF st = " "
         THEN IF c \in Whitespace THEN Lex(s, i + 1, " ", esc, "", FALSE, acc)
              ELSE IF c = Escape THEN Lex(s, i + 1, Escape, "a", "", TRUE, acc)
              ELSE IF c \in Quotes THEN Lex(s, i + 1, c, esc, "", TRUE, acc)
              ELSE Lex(s, i + 1, "a", esc, c, TRUE, acc)
         ELSE IF st \in Quotes
         THEN IF c = st THEN Lex(s, i + 1, "a", esc, tok, TRUE, acc)
              ELSE IF c = Escape /\ st \in EscapedQuotes
                   THEN Lex(s, i + 1, Escape, st, tok, TRUE, acc)
              ELSE Lex(s, i + 1, st, esc, tok \o c, TRUE, acc)
         ELSE IF st = Escape
         THEN IF esc \in Quotes /\ c # Escape /\ c # esc
              THEN Lex(s, i + 1, esc, esc, tok \o Escape \o c, TRUE, acc)
              ELSE Lex(s, i + 1, esc, esc, tok \o c, TRUE, acc)
         ELSE \* st = "a"
              IF c \in Whitespace
              THEN Lex(s, i + 1, " ", esc, "", FALSE, Append(acc, tok))
              ELSE IF c \in Quotes THEN Lex(s, i + 1, c, esc, tok, TRUE, acc)
              ELSE IF c = Escape THEN Lex(s, i + 1, Escape, "a", tok, TRUE, acc)
              ELSE Lex(s, i + 1, "a", esc, tok \o c, TRUE, acc)

shlex_split(s) == Lex(s, 1, " ", "a", "", FALSE, <<>>)

(***************************************************************************)
(* os.path (posixpath): the string operations on paths.                    *)
(***************************************************************************)
isabs(p) == StartsWith(p, "/")

\* os.path.join(a, b)
join(a, b) ==
    IF Sub(b, 1, 1) = "/" THEN b
    ELSE IF a = "" \/ Sub(a, Len(a), Len(a)) = "/" THEN a \o b
    ELSE a \o "/" \o b

\* the leading slashes normpath keeps: two for exactly two, else one or none
InitialSlashes(p) ==
    IF Sub(p, 1, 1) # "/" THEN ""
    ELSE IF Sub(p, 1, 2) = "//" /\ Sub(p, 1, 3) # "///" THEN "//"
    ELSE "/"

RECURSIVE NormComps(_, _, _)
\* the loop of normpath over the components comps, new the components kept so far
NormComps(comps, new, rooted) ==
    IF comps = <<>> THEN new
    ELSE LET comp == Head(comps) IN
         IF comp \in {"", "."} THEN NormComps(Tail(comps), new, rooted)
         ELSE IF \/ comp # ".."
                 \/ (~rooted /\ new = <<>>)
                 \/ (new # <<>> /\ new[Len(new)] = "..")
              THEN NormComps(Tail(comps), Append(new, comp), rooted)
         ELSE IF new # <<>>
              THEN NormComps(Tail(comps), SubSeq(new, 1, Len(new) - 1), rooted)
         ELSE NormComps(Tail(comps), new, rooted)

\* path or "."
OrDot(path) == IF path = "" THEN "." ELSE path

\* os.path.normpath(path)
normpath(path) ==
    OrDot(InitialSlashes(path)
          \o Join("/", NormComps(SplitOn(path, "/", <<>>), <<>>,
                                 Sub(path, 1, 1) = "/")))

\* head of os.path.split: without its trailing slashes, unless it is all slashes
SplitHead(head, stripped) == IF stripped # "" THEN stripped ELSE head

\* os.path.split(p), given the index i of the last "/" of p: <<head, tail>>
SplitAt(p, i) ==
    <<SplitHead(Sub(p, 1, i), RStripChars(Sub(p, 1, i), {"/"})),
      Sub(p, i + 1, Len(p))>>

psplit(p) == SplitAt(p, RFind(p, "/"))

basename(p) == Sub(p, RFind(p, "/") + 1, Len(p))

\* the home directory of the user running the engine (HOME of the process)
Home == "/h"

\* os.path.expanduser(path), for path starting with "~" and i the index of its
\* first "/": only a bare "~" names a user the host knows
ExpandAt(path, i) ==
    IF i # 2 THEN path
    ELSE IF RStripChars(Home, {"/"}) \o Sub(path, i, Len(path)) = "" THEN "/"
    ELSE RStripChars(Home, {"/"}) \o Sub(path, i, Len(path))

expanduser(path) ==
    IF Sub(path, 1, 1) # "~" THEN path ELSE ExpandAt(path, Find(path, "/"))

(***************************************************************************)
(* The host filesystem, as the os module shows it.  fs.dirs and fs.files   *)
(* are the canonical absolute paths ("/", "/a", "/a/b") of the directories *)
(* and files; fs.text gives each file's text; fs.locked are the            *)
(* directories the engine's user may neither search nor enter (mode 000).  *)
(* There are no symbolic links.  A failing call gives the errno name of    *)
(* the OSError it raises, "" on success.                                   *)
(***************************************************************************)
Child(d, n) == IF d = "/" THEN "/" \o n ELSE d \o "/" \o n

\* the directory holding d, given the index i of the last "/" of d
ParentAt(d, i) == IF i <= 1 THEN "/" ELSE Sub(d, 1, i - 1)

Parent(d) == ParentAt(d, RFind(d, "/"))

Step(d, c) == IF c = "." THEN d ELSE IF c = ".." THEN Parent(d) ELSE Child(d, c)

\* the components of the path p
Comps(p) == SelectSeq(SplitOn(p, "/", <<>>), LAMBDA c : c # "")

RECURSIVE Walk(_, _, _)
\* the kernel's path walk from directory cur: the canonical path the
\* components name, whether or not its last one exists, or "" when a
\* directory on the way is missing, is a file or may not be searched
Walk(fs, cur, comps) ==
    IF comps = <<>> THEN cur
    ELSE IF cur \notin fs.dirs \/ cur \in fs.locked THEN ""
    ELSE Walk(fs, Step(cur, Head(comps)), Tail(comps))

\* the canonical path the absolute path p names ("" when the walk fails)
NodeOf(fs, p) == Walk(fs, "/", Comps(p))

\* the same for a path the process resolves against its working directory
NodeFrom(fs, cwd, p) == IF isabs(p) THEN NodeOf(fs, p) ELSE NodeOf(fs, join(cwd, p))

\* os.path.isdir / isfile / exists
isdir(fs, p) == p # "" /\ NodeOf(fs, p) \in fs.dirs

isfile(fs, p) == p # "" /\ Sub(p, Len(p), Len(p)) # "/" /\ NodeOf(fs, p) \in fs.files

exists(fs, p) == p # "" /\ NodeOf(fs, p) \in fs.dirs \cup fs.files

\* q lies below the directory d
Under(d, q) == q # d /\ StartsWith(q, IF d = "/" THEN "/" ELSE d \o "/")

Children(fs, d) == {q \in fs.dirs \cup fs.files : Under(d, q) /\ Parent(q) = d}

\* the function f without the keys in S
Without(f, S) == [k \in DOMAIN f \ S |-> f[k]]

\* the filesystem without the entries in S
FsDelete(fs, S) ==
    [fs EXCEPT !.dirs = @ \ S, !.files = @ \ S, !.locked = @ \ S,
               !.text = Without(@, S)]

\* the filesystem with the file node holding text
FsWrite(fs, node, text) ==
    [fs EXCEPT !.files = @ \cup {node},
               !.text = [k \in DOMAIN @ \cup {node} |-> IF k = node THEN text ELSE @[k]]]

\* str(e) of the OSError a call on path p raised
strerror(errno, p) == "[" \o errno \o "] '" \o p \o "'"

FsRet(fs, errno) == [fs |-> fs, errno |-> errno]

\* os.mkdir of the path that names node
MkdirAt(fs, node) ==
    IF node = "" THEN FsRet(fs, "ENOENT")
    ELSE IF node \in fs.dirs \cup fs.files THEN FsRet(fs, "EEXIST")
    ELSE FsRet([fs EXCEPT !.dirs = @ \cup {node}], "")

\* os.mkdir(p)
mkdir(fs, p) == MkdirAt(fs, NodeOf(fs, p))

\* the last lines of makedirs: mkdir(name), whose failure counts only when
\* name is no directory
MakeLeaf(made, name) ==
    IF made.errno # "" /\ isdir(made.fs, name) THEN FsRet(made.fs, "") ELSE made

\* makedirs after its recursive call on the head returned sub
MakeAfter(sub, name, tail) ==
    IF sub.errno \notin {"", "EEXIST"} THEN sub
    ELSE IF tail = "." THEN FsRet(sub.fs, "")
    ELSE MakeLeaf(mkdir(sub.fs, name), name)

RECURSIVE MakeSplit(_, _, _)
\* os.makedirs(name, exist_ok=True), given <<head, tail>> of name
MakeSplit(fs, name, sp) ==
    IF sp[1] # "" /\ sp[2] # "" /\ ~exists(fs, sp[1])
    THEN MakeAfter(MakeSplit(fs, sp[1],
                             IF psplit(sp[1])[2] = "" THEN psplit(psplit(sp[1])[1])
                             ELSE psplit(sp[1])),
                   name, sp[2])
    ELSE MakeLeaf(mkdir(fs, name), name)

makedirs(fs, name) ==
    MakeSplit(fs, name,
              IF psplit(name)[2] = "" THEN psplit(psplit(name)[1]) ELSE psplit(name))

\* os.rmdir of the path with components comps that names node
RmdirAt(fs, node, comps) ==
    IF node = "" \/ node \notin (fs.dirs \cup fs.files) THEN FsRet(fs, "ENOENT")
    ELSE IF node \in fs.files THEN FsRet(fs, "ENOTDIR")
    ELSE IF comps = <<>> \/ node = "/" THEN FsRet(fs, "EBUSY")
    ELSE IF Last(comps) = "." THEN FsRet(fs, "EINVAL")
    ELSE IF Last(comps) = ".." THEN FsRet(fs, "ENOTEMPTY")
    ELSE IF Children(fs, node) # {} THEN FsRet(fs, "ENOTEMPTY")
    ELSE FsRet(FsDelete(fs, {node}), "")

\* os.rmdir(p)
rmdir(fs, p) == RmdirAt(fs, NodeOf(fs, p), Comps(p))

\* os.remove of the path p that names node
RemoveAt(fs, node, p) ==
    IF node = "" \/ node \notin (fs.dirs \cup fs.files) THEN FsRet(fs, "ENOENT")
    ELSE IF node \in fs.dirs THEN FsRet(fs, "EISDIR")
    ELSE IF EndsWith(p, "/") THEN FsRet(fs, "ENOTDIR")
    ELSE FsRet(FsDelete(fs, {node}), "")

\* os.remove(p)
remove(fs, p) == RemoveAt(fs, NodeOf(fs, p), p)

\* shutil.rmtree of the path that names the directory node: the entries below
\* it go first, then os.rmdir of the path itself.  A tree that holds a
\* directory the user may not read is left whole.
RmtreeAt(fs, node, comps) ==
    IF node = "" \/ node \notin fs.dirs THEN FsRet(fs, "ENOENT")
    ELSE IF \E q \in fs.locked : q = node \/ Under(node, q) THEN FsRet(fs, "EACCES")
    ELSE RmdirAt(FsDelete(fs, {q \in fs.dirs \cup fs.files : Under(node, q)}),
                 node, comps)

\* shutil.rmtree(p)
rmtree(fs, p) == RmtreeAt(fs, NodeOf(fs, p), Comps(p))

\* pathlib.Path(p).touch() of the path p that names node
TouchAt(fs, node, p) ==
    IF node = "" THEN FsRet(fs, "ENOENT")
    ELSE IF node \in fs.files /\ EndsWith(p, "/") THEN FsRet(fs, "ENOTDIR")
    ELSE IF node \in fs.dirs \cup fs.files THEN FsRet(fs, "")
    ELSE IF EndsWith(p, "/") THEN FsRet(fs, "EISDIR")
    ELSE FsRet(FsWrite(fs, node, ""), "")

touch(fs, p) == TouchAt(fs, NodeOf(fs, p), p)

\* the errno of entering the directory node: os.chdir, or a child process
\* started in it
EnterErrno(fs, node) ==
    IF node = "" \/ node \notin (fs.dirs \cup fs.files) THEN "ENOENT"
    ELSE IF node \in fs.files THEN "ENOTDIR"
    ELSE IF node \in fs.locked THEN "EACCES"
    ELSE ""

\* os.chdir(p)
chdir_errno(fs, p) == EnterErrno(fs, NodeOf(fs, p))

\* open(p).read() of the path p that names node: the text, or the errno
ReadAt(fs, node, p) ==
    IF node = "" \/ node \notin (fs.dirs \cup fs.files)
    THEN [text |-> "", errno |-> "ENOENT"]
    ELSE IF node \in fs.dirs THEN [text |-> "", errno |-> "EISDIR"]
    ELSE IF EndsWith(p, "/") THEN [text |-> "", errno |-> "ENOTDIR"]
    ELSE [text |-> fs.text[node], errno |-> ""]

read(fs, p) == ReadAt(fs, NodeOf(fs, p), p)


\* the entries below the directory node that a walk from it sees: those not
\* below a directory the user may not read
Visible(fs, node) ==
    {q \in fs.dirs \cup fs.files : Under(node, q) /\ ~\E d \in fs.locked : Under(d, q)}

\* the entries a copy of the tree at node can read
Readable(fs, node) == Visible(fs, node) \ fs.locked

\* the path of the entry q of the tree at src, in the copy of the tree at dst
Rebase(src, dst, q) ==
    IF src = "/" THEN dst \o q ELSE dst \o Sub(q, Len(src) + 1, Len(q))

\* the filesystem with the entries nodes of the tree at src copied below dst
Graft(fs, src, dst, nodes) ==
    [fs EXCEPT !.dirs = @ \cup {Rebase(src, dst, q) : q \in nodes \cap fs.dirs},
               !.files = @ \cup {Rebase(src, dst, q) : q \in nodes \cap fs.files},
               !.locked = @ \cup {Rebase(src, dst, q) : q \in nodes \cap fs.locked},
               !.text = [k \in DOMAIN @ \cup {Rebase(src, dst, q) : q \in nodes \cap fs.files}
                             |-> IF \E q \in nodes \cap fs.files : Rebase(src, dst, q) = k
                                 THEN fs.text[CHOOSE q \in nodes \cap fs.files :
                                                  Rebase(src, dst, q) = k]
                                 ELSE @[k]]]

\* shutil.copytree once os.makedirs(dst) returned made: the readable entries
\* are copied, and an unreadable directory below src makes it raise Error at
\* the end.  srcfs is the filesystem before the call.
CopyInto(srcfs, made, srcnode, dst) ==
    IF made.errno # "" THEN made
    ELSE FsRet(Graft(made.fs, srcnode, NodeOf(made.fs, dst),
                     {q \in Readable(srcfs, srcnode) :
                          ~(q = NodeOf(made.fs, dst) \/ Under(NodeOf(made.fs, dst), q))}),
               IF \E d \in srcfs.locked : Under(srcnode, d) THEN "Error" ELSE "")

\* shutil.copytree of the directory srcnode to the path dst
CopytreeAt(fs, srcnode, dst) ==
    IF srcnode = "" \/ srcnode \notin (fs.dirs \cup fs.files) THEN FsRet(fs, "ENOENT")
    ELSE IF srcnode \in fs.files THEN FsRet(fs, "ENOTDIR")
    ELSE IF srcnode \in fs.locked THEN FsRet(fs, "EACCES")
    ELSE IF exists(fs, dst) THEN FsRet(fs, "EEXIST")
    ELSE CopyInto(fs, makedirs(fs, dst), srcnode, dst)

\* shutil.copytree(src, dst)
copytree(fs, src, dst) == CopytreeAt(fs, NodeOf(fs, src), dst)

\* the write of shutil.copy2: the text goes to the path dst that names dstnode
CopyTo(fs, text, srcnode, dstnode, dst) ==
    IF dstnode = "" THEN FsRet(fs, "ENOENT")
    ELSE IF dstnode = srcnode THEN FsRet(fs, "SameFileError")
    ELSE IF dstnode \in fs.dirs \/ EndsWith(dst, "/") THEN FsRet(fs, "EISDIR")
    ELSE FsRet(FsWrite(fs, dstnode, text), "")

\* shutil.copy2 of the path src that names srcnode to dst
Copy2At(fs, srcnode, src, dst) ==
    IF srcnode = "" \/ srcnode \notin (fs.dirs \cup fs.files) THEN FsRet(fs, "ENOENT")
    ELSE IF srcnode \in fs.dirs THEN FsRet(fs, "EISDIR")
    ELSE IF EndsWith(src, "/") THEN FsRet(fs, "ENOTDIR")
    ELSE CopyTo(fs, fs.text[srcnode], srcnode, NodeOf(fs, dst), dst)

\* shutil.copy2(src, dst): into dst when dst is a directory
copy2(fs, src, dst) ==
    Copy2At(fs, NodeOf(fs, src), src,
            IF isdir(fs, dst) THEN join(dst, basename(src)) ELSE dst)

\* the subtree at node, node included
Subtree(fs, node) == {q \in fs.dirs \cup fs.files : q = node \/ Under(node, q)}

\* shutil._destinsrc(src, dst)
DestInSrc(src, dst) == StartsWith(normpath(dst) \o "/", normpath(src) \o "/")

\* the end of a move by copy: the source tree goes once the copy succeeded
Removed(copied, srcnode) ==
    IF copied.errno # "" THEN copied
    ELSE FsRet(FsDelete(copied.fs, Subtree(copied.fs, srcnode)), "")

\* os.rename of the entry srcnode to the path that names dstnode, with the
\* fall back of shutil.move to copy and delete when os.rename fails
RenameAt(fs, srcnode, dstnode, src, real_dst) ==
    IF srcnode = "" \/ srcnode \notin (fs.dirs \cup fs.files) THEN FsRet(fs, "ENOENT")
    ELSE IF srcnode \in fs.files
    THEN IF EndsWith(src, "/") THEN FsRet(fs, "ENOTDIR")
         ELSE IF dstnode = srcnode THEN FsRet(fs, "")
         ELSE IF dstnode = "" THEN FsRet(fs, "ENOENT")
         ELSE IF dstnode \in fs.dirs \/ EndsWith(real_dst, "/") THEN FsRet(fs, "EISDIR")
         ELSE FsRet(FsDelete(FsWrite(fs, dstnode, fs.text[srcnode]), {srcnode}), "")
    ELSE IF srcnode = "/" \/ DestInSrc(src, real_dst) THEN FsRet(fs, "Error")
    ELSE IF dstnode \in (fs.dirs \cup fs.files) THEN FsRet(fs, "EEXIST")
    ELSE IF dstnode = "" \/ (srcnode \in fs.locked /\ Parent(srcnode) # Parent(dstnode))
    THEN Removed(CopytreeAt(fs, srcnode, real_dst), srcnode)
    ELSE FsRet(FsDelete(Graft(fs, srcnode, dstnode, Subtree(fs, srcnode)),
                        Subtree(fs, srcnode)), "")

\* shutil.move once the real destination is known
MoveTo(fs, src, real_dst) ==
    RenameAt(fs, NodeOf(fs, src), NodeOf(fs, real_dst), src, real_dst)

\* shutil.move into the directory dst, where the entry would be real_dst
MoveInto(fs, src, dst, real_dst) ==
    IF NodeOf(fs, src) = NodeOf(fs, dst) THEN FsRet(fs, "")
    ELSE IF exists(fs, real_dst) THEN FsRet(fs, "Error")
    ELSE MoveTo(fs, src, real_dst)

\* shutil.move(src, dst): into dst when dst is a directory
move(fs, src, dst) ==
    IF isdir(fs, dst)
    THEN MoveInto(fs, src, dst, join(dst, basename(RStripChars(src, {"/"}))))
    ELSE MoveTo(fs, src, dst)
(***************************************************************************)
(* The session: the fields of a PythonTerminal object and the state of the *)
(* host process it runs in.                                                *)
(***************************************************************************)
VARIABLES
    current_dir,        \* self.current_dir
    command_history,    \* self.command_history: [command, timestamp, directory]
    aliases,            \* self.aliases: a dict, as its <<name, command>> items in
                        \* insertion order
    environment_vars,   \* self.environment_vars: a dict, as a function on its keys
    fs,                 \* the host filesystem
    os_cwd,             \* the working directory of the process (os.getcwd())
    clock,              \* datetime.now(), counted in calls made on the object
    call,               \* the last call of execute_command: the line passed, the
                        \* branch taken, the command and args dispatched on
    result,             \* how that call ended: the dict returned, or the
                        \* exception that left execute_command
    subprocess_run,     \* the arguments of the last subprocess.run, <<>> if none
    child,              \* the shell subprocess.run started and waits for
    suggestions,        \* the last call of get_command_suggestions: its argument,
                        \* the list returned, and the clock after it
    threads,            \* the server's threads: where each is in execute_command
    serialized          \* the callers make one call of execute_command at a time

vars == <<current_dir, command_history, aliases, environment_vars, fs, os_cwd,
          clock, call, result, subprocess_run, child, suggestions, threads,
          serialized>>

\* the threads that serve requests
Threads == {"t1", "t2"}

\* a thread outside execute_command; inside, after the history append, it has
\* the line, the directory the entry recorded, and in the end the directory
\* the handler found
Idle == [pc |-> "idle", line |-> "", directory |-> "", resolved |-> ""]

\* no subprocess.run is under way; one under way goes with the line and the
\* route of the call that made it
NoChild ==
    [state |-> "none", line |-> "",
     route |-> [branch |-> "none", command |-> "", args |-> <<>>],
     elapsed |-> 0, stdout |-> "", stderr |-> "", returncode |-> 0]

\* self, with the host state the handlers read and write
Session ==
    [current_dir |-> current_dir, command_history |-> command_history,
     aliases |-> aliases, environment_vars |-> environment_vars,
     fs |-> fs, os_cwd |-> os_cwd]

\* the dict every handler returns
CommandResult(output, error, exit_code) ==
    [output |-> output, error |-> error, exit_code |-> exit_code]

\* a handler's outcome: the session after it, and the dict it returned (exc = "")
\* or the exception it raised
Return(s, ret) == [s |-> s, ret |-> ret, exc |-> ""]

Raise(s, exc) == [s |-> s, ret |-> CommandResult("", "", 0), exc |-> exc]

\* return {"output": "", "error": error, "exit_code": 1}
Fail(s, error) == {Return(s, CommandResult("", error, 1))}

\* return {"output": output, "error": "", "exit_code": 0}
Succeed(s, output) == {Return(s, CommandResult(output, "", 0))}

(***************************************************************************)
(* dict operations on the alias table.                                     *)
(***************************************************************************)
\* the position of key in the items d, 0 when absent
DictIndex(d, key) ==
    CHOOSE i \in 0..Len(d) :
        /\ i >= 1 => d[i][1] = key
        /\ \A j \in (i + 1)..Len(d) : d[j][1] # key

DictHas(d, key) == \E i \in 1..Len(d) : d[i][1] = key

DictGet(d, key) == d[DictIndex(d, key)][2]

\* d[key] = value, given the position i of key: an existing key keeps its place
DictSetAt(d, i, key, value) ==
    IF i # 0 THEN [d EXCEPT ![i] = <<key, value>>] ELSE Append(d, <<key, value>>)

DictSet(d, key, value) == DictSetAt(d, DictIndex(d, key), key, value)

\* del d[key], given the position i of key
DictDelAt(d, i) == SubSeq(d, 1, i - 1) \o SubSeq(d, i + 1, Len(d))

DictDel(d, key) == DictDelAt(d, DictIndex(d, key))

\* dict assignment on a dict held as a function
FunSet(f, key, value) ==
    [k \in DOMAIN f \cup {key} |-> IF k = key THEN value ELSE f[k]]

\* a path as the handlers resolve it: against current_dir unless absolute
Resolved(s, name) == IF ~isabs(name) THEN join(s.current_dir, name) ELSE name

\* [arg for arg in args if not arg.startswith("-")]
NotFlags(args) == SelectSeq(args, LAMBDA a : Sub(a, 1, 1) # "-")

(***************************************************************************)
(* Built-in handlers.  Each gives the set of its possible outcomes: more   *)
(* than one where the host decides.                                        *)
(***************************************************************************)
\* a cd that does not ask whether the target is a directory
CdUnchecked(s, target) ==
    IF chdir_errno(s.fs, target) = ""
    THEN Succeed([s EXCEPT !.current_dir = target, !.os_cwd = NodeOf(s.fs, target)], "")
    ELSE {Raise([s EXCEPT !.current_dir = target], "OSError")}

\* the end of _cmd_cd, for the normalized target
CdTo(s, target) ==
    IF isdir(s.fs, target)
    THEN IF chdir_errno(s.fs, target) = ""
         THEN Succeed([s EXCEPT !.current_dir = target,
                                !.os_cwd = NodeOf(s.fs, target)], "")
         ELSE {Raise([s EXCEPT !.current_dir = target], "PermissionError")}
    ELSE Fail(s, "cd: " \o target \o ": No such directory")

\* the target of _cmd_cd before it is made absolute and normalized
CdTarget(args) ==
    expanduser(IF args = <<>> THEN expanduser("~")
               ELSE IF args[1] = "-" THEN expanduser("~")
               ELSE args[1])

_cmd_cd(s, args) == CdTo(s, normpath(Resolved(s, CdTarget(args))))

\* a pwd that takes the directory from the process
PwdFromProcess(s, args) == Succeed([s EXCEPT !.current_dir = s.os_cwd], s.os_cwd)

_cmd_pwd(s, args) == Succeed(s, s.current_dir)

\* the result of a handler that changed the filesystem to fs1 and collected
\* the messages errors
Collected(s, fs1, errors) ==
    IF errors # <<>> THEN {Return([s EXCEPT !.fs = fs1],
                                  CommandResult("", Join("\n", errors), 1))}
    ELSE {Return([s EXCEPT !.fs = fs1], CommandResult("", "", 0))}

\* one round of a handler's loop: the filesystem after the call that returned
\* r, and the messages with msg added if it failed
Noted(r, errors, msg) ==
    [fs |-> r.fs, errors |-> IF r.errno = "" THEN errors ELSE Append(errors, msg)]

\* the except clauses of _cmd_mkdir
MkdirMessage(errno, dir_name, dir_path) ==
    "mkdir: cannot create directory '" \o dir_name \o "': "
    \o (IF errno = "EEXIST" THEN "File exists" ELSE strerror(errno, dir_path))

MkdirOne(acc, r, dir_name, dir_path) ==
    Noted(r, acc.errors, MkdirMessage(r.errno, dir_name, dir_path))

RECURSIVE MkdirLoop(_, _, _, _)
\* the loop of _cmd_mkdir over dirs
MkdirLoop(s, dirs, recursive, acc) ==
    IF dirs = <<>> THEN acc
    ELSE MkdirLoop(s, Tail(dirs), recursive,
                   MkdirOne(acc,
                            IF recursive THEN makedirs(acc.fs, Resolved(s, Head(dirs)))
                            ELSE mkdir(acc.fs, Resolved(s, Head(dirs))),
                            Head(dirs), Resolved(s, Head(dirs))))

LoopEnd(s, acc) == Collected(s, acc.fs, acc.errors)

_cmd_mkdir(s, args) ==
    IF args = <<>> THEN Fail(s, "mkdir: missing operand")
    ELSE LoopEnd(s, MkdirLoop(s, NotFlags(args), InSeq("-p", args),
                              [fs |-> s.fs, errors |-> <<>>]))

RmdirOne(acc, r, dir_name, dir_path) ==
    Noted(r, acc.errors,
          "rmdir: failed to remove '" \o dir_name \o "': " \o strerror(r.errno, dir_path))

RECURSIVE RmdirLoop(_, _, _)
\* the loop of _cmd_rmdir over its arguments
RmdirLoop(s, dirs, acc) ==
    IF dirs = <<>> THEN acc
    ELSE RmdirLoop(s, Tail(dirs),
                   RmdirOne(acc, rmdir(acc.fs, Resolved(s, Head(dirs))),
                            Head(dirs), Resolved(s, Head(dirs))))

_cmd_rmdir(s, args) ==
    IF args = <<>> THEN Fail(s, "rmdir: missing operand")
    ELSE LoopEnd(s, RmdirLoop(s, args, [fs |-> s.fs, errors |-> <<>>]))

\* the except clause of _cmd_rm: with -f the failure r is passed over
RmQuiet(r, force) == IF force THEN FsRet(r.fs, "") ELSE r

RmNoted(acc, r, file_name, file_path) ==
    Noted(r, acc.errors,
          "rm: cannot remove '" \o file_name \o "': " \o strerror(r.errno, file_path))

\* one round of the loop of _cmd_rm
RmOne(acc, file_name, file_path, recursive, force) ==
    IF isdir(acc.fs, file_path)
    THEN IF recursive
         THEN RmNoted(acc, RmQuiet(rmtree(acc.fs, file_path), force),
                      file_name, file_path)
         ELSE [acc EXCEPT !.errors =
                   Append(@, "rm: cannot remove '" \o file_name \o "': Is a directory")]
    ELSE RmNoted(acc, RmQuiet(remove(acc.fs, file_path), force), file_name, file_path)

RECURSIVE RmLoop(_, _, _, _, _)
\* the loop of _cmd_rm over files
RmLoop(s, files, recursive, force, acc) ==
    IF files = <<>> THEN acc
    ELSE RmLoop(s, Tail(files), recursive, force,
                RmOne(acc, Head(files), Resolved(s, Head(files)), recursive, force))

_cmd_rm(s, args) ==
    IF args = <<>> THEN Fail(s, "rm: missing operand")
    ELSE LoopEnd(s, RmLoop(s, NotFlags(args),
                           InSeq("-r", args) \/ InSeq("-rf", args),
                           InSeq("-f", args) \/ InSeq("-rf", args),
                           [fs |-> s.fs, errors |-> <<>>]))

TouchOne(acc, r, file_name, file_path) ==
    Noted(r, acc.errors,
          "touch: cannot touch '" \o file_name \o "': " \o strerror(r.errno, file_path))

RECURSIVE TouchLoop(_, _, _)
\* the loop of _cmd_touch over its arguments, acc the outcome of the calls so
\* far: it returns at the first failure
TouchLoop(s, files, acc) ==
    IF acc.errors # <<>> \/ files = <<>> THEN acc
    ELSE TouchLoop(s, Tail(files),
                   TouchOne(acc, touch(acc.fs, Resolved(s, Head(files))),
                            Head(files), Resolved(s, Head(files))))

_cmd_touch(s, args) ==
    IF args = <<>> THEN Fail(s, "touch: missing operand")
    ELSE LoopEnd(s, TouchLoop(s, args, [fs |-> s.fs, errors |-> <<>>]))

_cmd_echo(s, args) == Succeed(s, Join(" ", args))

_cmd_clear(s, args) == Succeed(s, "CLEAR_SCREEN")

(***************************************************************************)
(* sorted(): Python orders strings by code point.  Ascii lists the         *)
(* characters of the model's text in that order.                           *)
(***************************************************************************)
Ascii ==
    " !\"#$%&'()*+,-./0123456789:;<=>?@ABCDEFGHIJKLMNOPQRSTUVWXYZ[\\]^_abcdefghijklmnopqrstuvwxyz{|}~"

Ord(c) == Find(Ascii, c)

RECURSIVE StrLess(_, _)
\* a < b
StrLess(a, b) ==
    IF b = "" THEN FALSE
    ELSE IF a = "" THEN TRUE
    ELSE IF Sub(a, 1, 1) = Sub(b, 1, 1) THEN StrLess(Drop(a, 1), Drop(b, 1))
    ELSE Ord(Sub(a, 1, 1)) < Ord(Sub(b, 1, 1))

RECURSIVE SortedFrom(_, _)
\* sorted(S), for a set S of strings, after the smaller strings found
SortedFrom(S, found) ==
    IF S = {} THEN found
    ELSE SortedFrom({x \in S : \E y \in S : StrLess(y, x)},
                    found \o <<CHOOSE x \in S : \A y \in S : ~StrLess(y, x)>>)

SortedSet(S) == SortedFrom(S, <<>>)

\* str(i).rjust(width)
RJust(str, width) ==
    IF Len(str) >= width THEN str
    ELSE SubSeq("        ", 1, width - Len(str)) \o str

(***************************************************************************)
(* Environment and shell-meta handlers.                                    *)
(***************************************************************************)
\* os.environ: the environment of the engine's process, which no handler changes
os_environ == [k \in {"HOME", "PATH"} |-> IF k = "HOME" THEN Home ELSE "/bin"]

\* the lines of _cmd_env for the sorted keys
EnvLines(env, keys) == [i \in 1..Len(keys) |-> keys[i] \o "=" \o env[keys[i]]]

_cmd_env(s, args) ==
    Succeed(s, Join("\n", EnvLines(s.environment_vars,
                                   SortedSet(DOMAIN s.environment_vars))))

\* an assignment that folds the key to lower case
EnvSetLower(env, kv) == FunSet(env, Lower(kv[1]), kv[2])

\* environment_vars[key] = value for the halves of "key=value"
EnvSet(env, kv) == FunSet(env, kv[1], kv[2])

_cmd_set(s, args) ==
    IF args = <<>> THEN _cmd_env(s, args)
    ELSE IF HasChar(args[1], "=")
    THEN Succeed([s EXCEPT !.environment_vars = EnvSet(@, Split1(args[1], "="))], "")
    ELSE Fail(s, "set: invalid format")

RECURSIVE ExportLoop(_, _)
\* the loop of _cmd_export over its arguments: environment_vars after it
ExportLoop(env, args) ==
    IF args = <<>> THEN env
    ELSE ExportLoop(IF HasChar(Head(args), "=")
                    THEN EnvSet(env, Split1(Head(args), "="))
                    ELSE IF Head(args) \in DOMAIN os_environ
                    THEN FunSet(env, Head(args), os_environ[Head(args)])
                    ELSE env,
                    Tail(args))

_cmd_export(s, args) ==
    IF args = <<>> THEN _cmd_env(s, args)
    ELSE Succeed([s EXCEPT !.environment_vars = ExportLoop(@, args)], "")

\* the number of entries _cmd_history shows
HistoryShown == 50

\* seq[-n:], for n > 0
LastN(seq, n) ==
    IF n >= Len(seq) THEN seq ELSE SubSeq(seq, Len(seq) - n + 1, Len(seq))

\* the lines of _cmd_history for the entries shown
HistoryLines(shown) ==
    [i \in 1..Len(shown) |-> RJust(ToString(i), 4) \o "  " \o shown[i].command]

\* a history that shows every entry
HistoryOfAll(s, args) ==
    Succeed(s, Join("\n", HistoryLines(s.command_history)))

_cmd_history(s, args) ==
    Succeed(s, Join("\n", HistoryLines(LastN(s.command_history, HistoryShown))))

_cmd_help(s, args) == Succeed(s, "[help text]")

\* an assignment that leaves an alias that exists as it is
AliasKeep(al, nc) ==
    IF DictHas(al, nc[1]) THEN al ELSE DictSet(al, nc[1], StripChars(nc[2], Quotes))

\* self.aliases[name] = command.strip("'\"") for the halves of "name=command"
AliasSet(al, nc) == DictSet(al, nc[1], StripChars(nc[2], Quotes))

RECURSIVE AliasLoopAtomic(_, _, _)
\* a loop that gives up the assignments it made when it meets an argument
\* without "="
AliasLoopAtomic(s, al, args) ==
    IF args = <<>> THEN Succeed([s EXCEPT !.aliases = al], "")
    ELSE IF HasChar(Head(args), "=")
    THEN AliasLoopAtomic(s, AliasSet(al, Split1(Head(args), "=")), Tail(args))
    ELSE Fail(s, "alias: invalid format '" \o Head(args) \o "'")

RECURSIVE AliasLoop(_, _, _)
\* the loop of _cmd_alias over its arguments: it returns at the first argument
\* without "="
AliasLoop(s, al, args) ==
    IF args = <<>> THEN Succeed([s EXCEPT !.aliases = al], "")
    ELSE IF HasChar(Head(args), "=")
    THEN AliasLoop(s, AliasSet(al, Split1(Head(args), "=")), Tail(args))
    ELSE Fail([s EXCEPT !.aliases = al],
              "alias: invalid format '" \o Head(args) \o "'")

\* the lines of the listing of _cmd_alias
AliasLines(al) == [i \in 1..Len(al) |-> "alias " \o al[i][1] \o "='" \o al[i][2] \o "'"]

_cmd_alias(s, args) ==
    IF args = <<>> THEN Succeed(s, Join("\n", AliasLines(s.aliases)))
    ELSE AliasLoop(s, s.aliases, args)

RECURSIVE UnaliasLoop(_, _, _)
\* the loop of _cmd_unalias over its arguments: it returns at the first name
\* that is no alias
UnaliasLoop(s, al, args) ==
    IF args = <<>> THEN Succeed([s EXCEPT !.aliases = al], "")
    ELSE IF DictHas(al, Head(args))
    THEN UnaliasLoop(s, DictDel(al, Head(args)), Tail(args))
    ELSE Fail([s EXCEPT !.aliases = al], "unalias: " \o Head(args) \o ": not found")

_cmd_unalias(s, args) ==
    IF args = <<>> THEN Fail(s, "unalias: missing operand")
    ELSE UnaliasLoop(s, s.aliases, args)

\* the keys of builtin_commands in execute_command
BuiltinNames ==
    {"cd", "pwd", "ls", "dir", "mkdir", "rmdir", "rm", "del", "touch", "cat", "type",
     "cp", "copy", "mv", "move", "find", "ps", "kill", "top", "df", "du", "whoami",
     "date", "echo", "env", "set", "export", "history", "clear", "cls", "help",
     "alias", "unalias", "which", "where", "tree", "wc", "head", "tail", "grep",
     "findstr"}

\* the list builtin_commands of _cmd_which and of get_command_suggestions
BuiltinList ==
    <<"cd", "pwd", "ls", "dir", "mkdir", "rmdir", "rm", "del", "touch", "cat", "type",
      "cp", "copy", "mv", "move", "find", "ps", "kill", "top", "df", "du", "whoami",
      "date", "echo", "env", "set", "export", "history", "clear", "cls", "help",
      "alias", "unalias", "which", "where", "tree", "wc", "head", "tail", "grep",
      "findstr">>

\* a which that looks at the aliases before the built-ins
WhichAliasFirst(s, args) ==
    IF args = <<>> THEN Fail(s, "which: missing operand")
    ELSE IF DictHas(s.aliases, args[1])
    THEN Succeed(s, args[1] \o ": aliased to '" \o DictGet(s.aliases, args[1]) \o "'")
    ELSE IF InSeq(args[1], BuiltinList) THEN Succeed(s, args[1] \o ": shell builtin")
    ELSE Succeed(s, "/bin/" \o args[1])
         \cup Fail(s, "which: " \o args[1] \o ": not found")

\* shutil.which finds an executable of that name on the host's PATH, or none
_cmd_which(s, args) ==
    IF args = <<>> THEN Fail(s, "which: missing operand")
    ELSE IF InSeq(args[1], BuiltinList) THEN Succeed(s, args[1] \o ": shell builtin")
    ELSE IF DictHas(s.aliases, args[1])
    THEN Succeed(s, args[1] \o ": aliased to '" \o DictGet(s.aliases, args[1]) \o "'")
    ELSE Succeed(s, "/bin/" \o args[1])
         \cup Fail(s, "which: " \o args[1] \o ": not found")

(***************************************************************************)
(* Handlers that read files and directories.                               *)
(***************************************************************************)
\* os.listdir of the path that names node: the names in it, or the errno
ListAt(disk, node) ==
    IF node = "" \/ node \notin (disk.dirs \cup disk.files)
    THEN [names |-> {}, errno |-> "ENOENT"]
    ELSE IF node \in disk.files THEN [names |-> {}, errno |-> "ENOTDIR"]
    ELSE IF node \in disk.locked THEN [names |-> {}, errno |-> "EACCES"]
    ELSE [names |-> {Sub(q, RFind(q, "/") + 1, Len(q)) : q \in Children(disk, node)},
          errno |-> ""]

listdir(disk, p) == ListAt(disk, NodeOf(disk, p))

\* one line of ls -l for the entry named item at node; the time is the host's
LongLine(disk, node, item) ==
    (IF node \in disk.dirs THEN "drwxr-xr-x" ELSE "-rw-r--r--") \o " 1 user user "
    \o RJust(IF node \in disk.dirs THEN "4096" ELSE ToString(Len(disk.text[node])), 8)
    \o " [mtime] " \o item

\* the output of _cmd_ls for the sorted items of the directory node
LsOutput(disk, node, items, long_format) ==
    IF long_format
    THEN Join("\n", [i \in 1..Len(items) |-> LongLine(disk, Child(node, items[i]), items[i])])
    ELSE Join("  ", items)

\* _cmd_ls after os.listdir returned listed
LsListed(s, target_dir, node, listed, show_all, long_format) ==
    IF listed.errno = "EACCES"
    THEN Fail(s, "ls: cannot access '" \o target_dir \o "': Permission denied")
    ELSE IF listed.errno = "ENOENT"
    THEN Fail(s, "ls: cannot access '" \o target_dir \o "': No such file or directory")
    ELSE IF listed.errno # "" THEN {Raise(s, "NotADirectoryError")}
    ELSE Succeed(s, LsOutput(s.fs, node,
                             SortedSet({n \in listed.names :
                                            show_all \/ Sub(n, 1, 1) # "."}),
                             long_format))

\* _cmd_ls of the absolute path target_dir that names node
LsAt(s, target_dir, node, show_all, long_format) ==
    IF node \in s.fs.files /\ Sub(target_dir, Len(target_dir), Len(target_dir)) # "/"
    THEN IF long_format
         THEN Succeed(s, "-rw-r--r-- 1 user user "
                         \o RJust(ToString(Len(s.fs.text[node])), 8)
                         \o " [mtime] " \o basename(target_dir))
         ELSE Succeed(s, basename(target_dir))
    ELSE LsListed(s, target_dir, node, ListAt(s.fs, node), show_all, long_format)

LsTarget(s, path_args) ==
    IF path_args # <<>> THEN Resolved(s, path_args[1]) ELSE Resolved(s, s.current_dir)

LsPath(s, target_dir, show_all, long_format) ==
    LsAt(s, target_dir, NodeOf(s.fs, target_dir), show_all, long_format)

_cmd_ls(s, args) ==
    LsPath(s, LsTarget(s, NotFlags(args)),
           InSeq("-a", args) \/ InSeq("-la", args) \/ InSeq("-al", args),
           InSeq("-l", args) \/ InSeq("-la", args) \/ InSeq("-al", args))

\* s.rstrip()
RStrip(str) == RStripChars(str, Whitespace)

RECURSIVE CatLoop(_, _, _)
\* the loop of _cmd_cat, after the texts in output_lines
CatLoop(s, files, output_lines) ==
    IF files = <<>> THEN Succeed(s, Join("\n", output_lines))
    ELSE IF read(s.fs, Resolved(s, Head(files))).errno # ""
    THEN Fail(s, "cat: " \o Head(files) \o ": [OSError]")
    ELSE CatLoop(s, Tail(files),
                 Append(output_lines, RStrip(read(s.fs, Resolved(s, Head(files))).text)))

_cmd_cat(s, args) ==
    IF args = <<>> THEN Fail(s, "cat: missing operand") ELSE CatLoop(s, args, <<>>)

\* content.count("\n")
CountNewlines(content) == Cardinality({i \in 1..Len(content) : Sub(content, i, i) = "\n"})

\* len(content.split()): the words start where a character follows a space
\* or the start
CountWords(content) ==
    Cardinality({i \in 1..Len(content) :
                     /\ Sub(content, i, i) \notin Whitespace
                     /\ (i = 1 \/ Sub(content, i - 1, i - 1) \in Whitespace)})

WcLine(content, file_name) ==
    RJust(ToString(CountNewlines(content)), 8) \o " "
    \o RJust(ToString(CountWords(content)), 8) \o " "
    \o RJust(ToString(Len(content)), 8) \o " " \o file_name

RECURSIVE WcLoop(_, _, _)
\* the loop of _cmd_wc, after the lines in results
WcLoop(s, files, results) ==
    IF files = <<>> THEN Succeed(s, Join("\n", results))
    ELSE IF read(s.fs, Resolved(s, Head(files))).errno # ""
    THEN Fail(s, "wc: " \o Head(files) \o ": [OSError]")
    ELSE WcLoop(s, Tail(files),
                Append(results,
                       WcLine(read(s.fs, Resolved(s, Head(files))).text, Head(files))))

_cmd_wc(s, args) ==
    IF args = <<>> THEN Fail(s, "wc: missing operand") ELSE WcLoop(s, args, <<>>)

RECURSIVE ReadLines(_, _)
\* f.readlines(): the lines of content with their line ends, after those found
ReadLines(content, found) ==
    IF content = "" THEN found
    ELSE ReadLines(Sub(content, Find(content, "\n") + 1, Len(content)),
                   Append(found, Sub(content, 1, Find(content, "\n"))))

Digits == "0123456789"

RECURSIVE DigitsValue(_, _)
\* the number the digits str write, after the digits that gave n; -1 when a
\* character is no digit
DigitsValue(str, n) ==
    IF str = "" THEN n
    ELSE IF ~HasChar(Digits, Sub(str, 1, 1)) THEN 0 - 1
    ELSE DigitsValue(Drop(str, 1), 10 * n + Find(Digits, Sub(str, 1, 1)) - 1)

\* int(str), for a stripped str: a sign and decimal digits
IntOf(str) ==
    IF Sub(str, 1, 1) \in {"+", "-"}
    THEN IF Len(str) = 1 \/ DigitsValue(Drop(str, 1), 0) < 0
         THEN [ok |-> FALSE, value |-> 0]
         ELSE [ok |-> TRUE,
               value |-> IF Sub(str, 1, 1) = "-" THEN 0 - DigitsValue(Drop(str, 1), 0)
                         ELSE DigitsValue(Drop(str, 1), 0)]
    ELSE IF str = "" \/ DigitsValue(str, 0) < 0 THEN [ok |-> FALSE, value |-> 0]
    ELSE [ok |-> TRUE, value |-> DigitsValue(str, 0)]

\* int(str): ValueError when not ok
int(str) == IntOf(Strip(str))

\* the default line count of head and tail
DefaultLines == 10

RECURSIVE CountArgs(_, _, _, _)
\* the argument loop of _cmd_head and _cmd_tail from args[i] on: the count and
\* the files, or the message of the argument that is no number
CountArgs(name, args, i, acc) ==
    IF i > Len(args) THEN acc
    ELSE IF args[i] = "-n" /\ i + 1 <= Len(args)
    THEN IF int(args[i + 1]).ok
         THEN CountArgs(name, args, i + 2, [acc EXCEPT !.lines = int(args[i + 1]).value])
         ELSE [acc EXCEPT !.error = name \o ": invalid number '" \o args[i + 1] \o "'"]
    ELSE IF Sub(args[i], 1, 1) = "-"
    THEN IF int(Drop(args[i], 1)).ok
         THEN CountArgs(name, args, i + 1,
                        [acc EXCEPT !.lines = int(Drop(args[i], 1)).value])
         ELSE [acc EXCEPT !.error = name \o ": invalid option '" \o args[i] \o "'"]
    ELSE CountArgs(name, args, i + 1, [acc EXCEPT !.files = Append(@, args[i])])

\* seq[:n]
SliceTo(seq, n) ==
    IF n >= Len(seq) THEN seq
    ELSE IF n >= 0 THEN SubSeq(seq, 1, n)
    ELSE IF Len(seq) + n > 0 THEN SubSeq(seq, 1, Len(seq) + n)
    ELSE <<>>

\* seq[k:]
SliceFrom(seq, k) ==
    IF k >= Len(seq) THEN <<>>
    ELSE IF k >= 0 THEN SubSeq(seq, k + 1, Len(seq))
    ELSE IF Len(seq) + k > 0 THEN SubSeq(seq, Len(seq) + k + 1, Len(seq))
    ELSE seq

\* file_lines[:lines]
HeadOf(file_lines, lines) == SliceTo(file_lines, lines)

\* file_lines[-lines:] if lines <= len(file_lines) else file_lines
TailOf(file_lines, lines) ==
    IF lines <= Len(file_lines) THEN SliceFrom(file_lines, 0 - lines) ELSE file_lines

RECURSIVE HeadLoop(_, _, _, _)
\* the loop of _cmd_head over files, after the lines in results
HeadLoop(s, files, lines, results) ==
    IF files = <<>> THEN Succeed(s, RStrip(Join("", results)))
    ELSE IF read(s.fs, Resolved(s, Head(files))).errno # ""
    THEN Fail(s, "head: " \o Head(files) \o ": [OSError]")
    ELSE HeadLoop(s, Tail(files), lines,
                  results \o HeadOf(ReadLines(read(s.fs, Resolved(s, Head(files))).text,
                                              <<>>), lines))

HeadParsed(s, parsed) ==
    IF parsed.error # "" THEN Fail(s, parsed.error)
    ELSE IF parsed.files = <<>> THEN Fail(s, "head: missing operand")
    ELSE HeadLoop(s, parsed.files, parsed.lines, <<>>)

_cmd_head(s, args) ==
    HeadParsed(s, CountArgs("head", args, 1,
                            [lines |-> DefaultLines, files |-> <<>>, error |-> ""]))

RECURSIVE TailLoop(_, _, _, _)
\* the loop of _cmd_tail over files, after the lines in results
TailLoop(s, files, lines, results) ==
    IF files = <<>> THEN Succeed(s, RStrip(Join("", results)))
    ELSE IF read(s.fs, Resolved(s, Head(files))).errno # ""
    THEN Fail(s, "tail: " \o Head(files) \o ": [OSError]")
    ELSE TailLoop(s, Tail(files), lines,
                  results \o TailOf(ReadLines(read(s.fs, Resolved(s, Head(files))).text,
                                              <<>>), lines))

TailParsed(s, parsed) ==
    IF parsed.error # "" THEN Fail(s, parsed.error)
    ELSE IF parsed.files = <<>> THEN Fail(s, "tail: missing operand")
    ELSE TailLoop(s, parsed.files, parsed.lines, <<>>)

_cmd_tail(s, args) ==
    TailParsed(s, CountArgs("tail", args, 1,
                            [lines |-> DefaultLines, files |-> <<>>, error |-> ""]))

\* pattern in line
Contains(line, pattern) ==
    \E i \in 1..(Len(line) + 1) : Sub(line, i, i + Len(pattern) - 1) = pattern

\* the lines _cmd_grep reports for the lines file_lines of the file file_name
GrepLines(file_lines, pattern, file_name) ==
    [i \in 1..Len(file_lines) |->
         file_name \o ":" \o ToString(i) \o ":" \o RStrip(file_lines[i])]

GrepFile(file_lines, pattern, file_name) ==
    SelectSeq(GrepLines(file_lines, pattern, file_name),
              LAMBDA hit : \E i \in 1..Len(file_lines) :
                               /\ Contains(file_lines[i], pattern)
                               /\ hit = file_name \o ":" \o ToString(i) \o ":"
                                        \o RStrip(file_lines[i]))

RECURSIVE GrepLoop(_, _, _, _)
\* the loop of _cmd_grep over files, after the lines in results
GrepLoop(s, pattern, files, results) ==
    IF files = <<>> THEN Succeed(s, Join("\n", results))
    ELSE IF read(s.fs, Resolved(s, Head(files))).errno # ""
    THEN Fail(s, "grep: " \o Head(files) \o ": [OSError]")
    ELSE GrepLoop(s, pattern, Tail(files),
                  results \o GrepFile(ReadLines(read(s.fs, Resolved(s, Head(files))).text,
                                                <<>>), pattern, Head(files)))

_cmd_grep(s, args) ==
    IF Len(args) < 2 THEN Fail(s, "grep: missing operand")
    ELSE GrepLoop(s, args[1], Tail(args), <<>>)

(***************************************************************************)
(* cp, mv and the handlers that walk a tree or ask the host.               *)
(***************************************************************************)
\* one source of the many-source loop of _cmd_cp
CpEach(s, src_path, dest_path, recursive) ==
    IF isdir(s.fs, src_path) /\ recursive
    THEN copytree(s.fs, src_path, join(dest_path, basename(src_path)))
    ELSE IF isfile(s.fs, src_path) THEN copy2(s.fs, src_path, dest_path)
    ELSE FsRet(s.fs, "")

RECURSIVE CpLoop(_, _, _, _)
\* the many-source loop of _cmd_cp once a source gave r: the first OSError
\* ends it
CpNext(s, r, source_files, dest_path, recursive) ==
    IF r.errno # "" THEN Fail([s EXCEPT !.fs = r.fs], "cp: [OSError]")
    ELSE CpLoop([s EXCEPT !.fs = r.fs], source_files, dest_path, recursive)

CpLoop(s, source_files, dest_path, recursive) ==
    IF source_files = <<>> THEN Succeed(s, "")
    ELSE CpNext(s, CpEach(s, Resolved(s, Head(source_files)), dest_path, recursive),
                Tail(source_files), dest_path, recursive)

\* the end of a handler that made one filesystem call
Done(s, r, name) ==
    IF r.errno # "" THEN Fail([s EXCEPT !.fs = r.fs], name \o ": [OSError]")
    ELSE Succeed([s EXCEPT !.fs = r.fs], "")

\* the one-source branch of _cmd_cp
CpSingle(s, src, src_path, dest_path, recursive) ==
    IF isdir(s.fs, src_path)
    THEN IF recursive
         THEN Done(s, copytree(s.fs, src_path,
                               IF exists(s.fs, dest_path)
                               THEN join(dest_path, basename(src_path)) ELSE dest_path),
                   "cp")
         ELSE Fail(s, "cp: -r not specified; omitting directory '" \o src \o "'")
    ELSE Done(s, copy2(s.fs, src_path,
                       IF isdir(s.fs, dest_path)
                       THEN join(dest_path, basename(src_path)) ELSE dest_path),
              "cp")

CpFiles(s, files, dest, recursive) ==
    IF Len(files) < 2 THEN Fail(s, "cp: missing operand")
    ELSE IF Len(files) = 2
    THEN CpSingle(s, files[1], Resolved(s, files[1]), Resolved(s, dest), recursive)
    ELSE IF ~isdir(s.fs, Resolved(s, dest))
    THEN Fail(s, "cp: target '" \o dest \o "' is not a directory")
    ELSE CpLoop(s, Front(files), Resolved(s, dest), recursive)

_cmd_cp(s, args) ==
    IF Len(args) < 2 THEN Fail(s, "cp: missing operand")
    ELSE CpFiles(s, NotFlags(args),
                 IF NotFlags(args) = <<>> THEN "" ELSE Last(NotFlags(args)),
                 InSeq("-r", args))

RECURSIVE MvLoop(_, _, _)
\* the many-source loop of _cmd_mv once a source gave r: the first OSError
\* ends it
MvNext(s, r, source_files, dest_path) ==
    IF r.errno # "" THEN Fail([s EXCEPT !.fs = r.fs], "mv: [OSError]")
    ELSE MvLoop([s EXCEPT !.fs = r.fs], source_files, dest_path)

MvLoop(s, source_files, dest_path) ==
    IF source_files = <<>> THEN Succeed(s, "")
    ELSE MvNext(s, move(s.fs, Resolved(s, Head(source_files)), dest_path),
                Tail(source_files), dest_path)

\* the one-source branch of _cmd_mv
MvSingle(s, src_path, dest_path) ==
    Done(s, move(s.fs, src_path,
                 IF isdir(s.fs, dest_path)
                 THEN join(dest_path, basename(src_path)) ELSE dest_path),
         "mv")

_cmd_mv(s, args) ==
    IF Len(args) < 2 THEN Fail(s, "mv: missing operand")
    ELSE IF Len(args) = 2 THEN MvSingle(s, Resolved(s, args[1]), Resolved(s, args[2]))
    ELSE IF ~isdir(s.fs, Resolved(s, Last(args)))
    THEN Fail(s, "mv: target '" \o Last(args) \o "' is not a directory")
    ELSE MvLoop(s, Front(args), Resolved(s, Last(args)))

\* the directory _cmd_find searches; os.path.isdir(args[0]) asks the process,
\* whose working directory is os_cwd
FindDir(s, args) ==
    IF args = <<>> THEN s.current_dir
    ELSE IF Len(args) = 1
    THEN IF args[1] # "" /\ NodeFrom(s.fs, s.os_cwd, args[1]) \in s.fs.dirs
         THEN args[1] ELSE s.current_dir
    ELSE args[1]

FindPattern(s, args) ==
    IF args = <<>> THEN "*"
    ELSE IF Len(args) = 1
    THEN IF args[1] # "" /\ NodeFrom(s.fs, s.os_cwd, args[1]) \in s.fs.dirs
         THEN "*" ELSE args[1]
    ELSE args[2]

\* fnmatch.fnmatch(name, pattern) for a pattern of literal characters and "*"
RECURSIVE fnmatch(_, _)
fnmatch(name, pattern) ==
    IF pattern = "" THEN name = ""
    ELSE IF Sub(pattern, 1, 1) = "*"
    THEN fnmatch(name, Drop(pattern, 1)) \/ (name # "" /\ fnmatch(Drop(name, 1), pattern))
    ELSE name # "" /\ Sub(name, 1, 1) = Sub(pattern, 1, 1)
         /\ fnmatch(Drop(name, 1), Drop(pattern, 1))

\* the paths os.walk(search_dir) gives _cmd_find.  os.walk skips what it
\* cannot list and raises nothing; it follows the host's directory order, for
\* which the model takes the code point order of the paths.
FindResults(s, search_dir, node, pattern) ==
    IF node = "" \/ node \notin s.fs.dirs \/ node \in s.fs.locked THEN <<>>
    ELSE SortedSet({Rebase(node, RStripChars(search_dir, {"/"}), q) :
                        q \in {r \in Visible(s.fs, node) : fnmatch(basename(r), pattern)}})

FindIn(s, search_dir, pattern) ==
    Succeed(s, Join("\n", FindResults(s, search_dir, NodeOf(s.fs, search_dir), pattern)))

_cmd_find(s, args) == FindIn(s, Resolved(s, FindDir(s, args)), FindPattern(s, args))

\* _cmd_tree: the lines below the first are the host's drawing of the tree
TreeOf(s, target_dir, node) ==
    IF ~isdir(s.fs, target_dir)
    THEN Fail(s, "tree: " \o target_dir \o ": No such directory")
    ELSE IF node \in s.fs.locked \/ Children(s.fs, node) = {}
    THEN Succeed(s, target_dir)
    ELSE Succeed(s, target_dir \o "\n[tree]")

_cmd_tree(s, args) ==
    TreeOf(s, Resolved(s, IF args = <<>> THEN s.current_dir ELSE args[1]),
           NodeOf(s.fs, Resolved(s, IF args = <<>> THEN s.current_dir ELSE args[1])))

\* _cmd_du: the size is the host's; errors inside the walk are swallowed
_cmd_du(s, args) ==
    Succeed(s, "[size]M\t" \o Resolved(s, IF args = <<>> THEN s.current_dir ELSE args[1]))

\* the handlers that report on the host: psutil answers or raises
_cmd_ps(s, args) == Succeed(s, "[processes]") \cup Fail(s, "ps: [exception]")

_cmd_top(s, args) == Succeed(s, "[system information]") \cup Fail(s, "top: [exception]")

_cmd_df(s, args) == Succeed(s, "[disk usage]") \cup Fail(s, "df: [exception]")

\* _cmd_kill once int(args[0]) is known; which processes exist is the host's
KillPid(s, arg, pid) ==
    IF ~pid.ok \/ pid.value < 0
    THEN Fail(s, "kill: invalid PID '" \o arg \o "'")
    ELSE Succeed(s, "Process " \o ToString(pid.value) \o " terminated")
         \cup Fail(s, "kill: no such process '" \o arg \o "'")
         \cup Fail(s, "kill: permission denied for process '" \o arg \o "'")

_cmd_kill(s, args) ==
    IF args = <<>> THEN Fail(s, "kill: missing operand")
    ELSE KillPid(s, args[1], int(args[1]))

\* getpass.getuser() names the user or raises when the host knows none
_cmd_whoami(s, args) == Succeed(s, "[user]") \cup {Raise(s, "KeyError")}

_cmd_date(s, args) == Succeed(s, "[date]")

(***************************************************************************)
(* _execute_system_command: the line goes to the host's shell.  What the   *)
(* shell's command prints and returns is the host's choice; the commands   *)
(* of the host leave the modelled tree alone.                              *)
(***************************************************************************)
\* timeout=30
Timeout == 30

\* the exit statuses a host command is seen to return
ReturnCodes == {0, 1, 127}

\* what a host command may write to a stream
Streams(name) == {"", name}

\* subprocess.run can start the shell: the working directory can be entered
\* and the environment has no illegal name
CanLaunch(s) ==
    chdir_errno(s.fs, s.current_dir) = "" /\ "" \notin DOMAIN s.environment_vars

\* the arguments of subprocess.run
Launch(s, command_line) ==
    [args |-> command_line, cwd |-> s.current_dir, env |-> s.environment_vars,
     timeout |-> Timeout]

\* the dicts _execute_system_command returns when the shell started
Completed ==
    {CommandResult(out, err, rc) :
         out \in Streams("[stdout]"), err \in Streams("[stderr]"), rc \in ReturnCodes}
    \cup {CommandResult("", "Command timed out", 124)}

_execute_system_command(s, command_line) ==
    IF CanLaunch(s)
    THEN {Return(s, r) : r \in Completed}
    ELSE {Return(s, CommandResult("", "Command not found: [exception]", 127))}

(***************************************************************************)
(* execute_command: history, parsing, alias expansion, dispatch.           *)
(***************************************************************************)
\* a history that keeps the latest entry only
RememberLatest(s, command_line, now) ==
    [s EXCEPT !.command_history =
                  <<[command |-> command_line, timestamp |-> now,
                     directory |-> s.current_dir]>>]

\* self.command_history.append({...})
Remember(s, command_line, now) ==
    [s EXCEPT !.command_history =
                  Append(@, [command |-> command_line, timestamp |-> now,
                             directory |-> s.current_dir])]

\* where a call goes: the branch of execute_command, and the command and
\* args it dispatches on
Routed(branch, command, args) == [branch |-> branch, command |-> command, args |-> args]

\* if command in builtin_commands ... else ...
Route(command, args) ==
    Routed(IF command \in BuiltinNames THEN "builtin" ELSE "fallback", command, args)

\* an expansion that puts the alias's tokens behind the arguments
ExpandedBehind(command, args, lexed) ==
    IF ~lexed.ok THEN Route(command, args)
    ELSE IF args \o lexed.parts = <<>> THEN Routed("alias_fault", command, args)
    ELSE Route(Lower(Head(args \o lexed.parts)), Tail(args \o lexed.parts))

\* the body of "if command in self.aliases", given shlex.split(expanded):
\* a ValueError is passed over, parts[0] of an empty list is an IndexError
Expanded(command, args, lexed) ==
    IF ~lexed.ok THEN Route(command, args)
    ELSE IF lexed.parts \o args = <<>> THEN Routed("alias_fault", command, args)
    ELSE Route(Lower(Head(lexed.parts \o args)), Tail(lexed.parts \o args))

\* an alias check made again on the command an alias expanded to
AliasedAgain(al, command, args) ==
    IF ~DictHas(al, command) THEN Route(command, args)
    ELSE IF Expanded(command, args, shlex_split(DictGet(al, command))).branch = "alias_fault"
         \/ ~DictHas(al, Expanded(command, args, shlex_split(DictGet(al, command))).command)
    THEN Expanded(command, args, shlex_split(DictGet(al, command)))
    ELSE Expanded(Expanded(command, args, shlex_split(DictGet(al, command))).command,
                  Expanded(command, args, shlex_split(DictGet(al, command))).args,
                  shlex_split(DictGet(al, Expanded(command, args,
                                                   shlex_split(DictGet(al, command))).command)))

\* a dispatch that looks at the built-ins before the aliases
AliasedUnlessBuiltin(al, command, args) ==
    IF command \in BuiltinNames \/ ~DictHas(al, command) THEN Route(command, args)
    ELSE Expanded(command, args, shlex_split(DictGet(al, command)))

\* the alias check, made once on the command the line names
Aliased(al, command, args) ==
    IF DictHas(al, command) THEN Expanded(command, args, shlex_split(DictGet(al, command)))
    ELSE Route(command, args)

\* execute_command after shlex.split(command_line.strip()) gave lexed
Lexed(al, lexed) ==
    IF ~lexed.ok THEN Routed("parse_error", lexed.msg, <<>>)
    ELSE IF lexed.parts = <<>> THEN Routed("no_parts", "", <<>>)
    ELSE Aliased(al, Lower(Head(lexed.parts)), Tail(lexed.parts))

\* the branch execute_command takes on command_line under the aliases al
Dispatch(al, command_line) ==
    IF Strip(command_line) = "" THEN Routed("blank", "", <<>>)
    ELSE Lexed(al, shlex_split(Strip(command_line)))

\* a catch that turns the exception into an exit code and drops its text
CaughtSilently(o) ==
    IF o.exc = "" THEN o ELSE Return(o.s, CommandResult("", "", 1))

\* except Exception as e: around the dispatch
Caught(o) ==
    IF o.exc = "" THEN o
    ELSE Return(o.s, CommandResult("", "Error executing command: [" \o o.exc \o "]", 1))

\* the session, the clock and the record of the last call after a call of
\* execute_command(line) that took the route d and ended as o, subprocess.run
\* last called with run
Finished(line, d, o, run) ==
    /\ current_dir' = o.s.current_dir
    /\ command_history' = o.s.command_history
    /\ aliases' = o.s.aliases
    /\ environment_vars' = o.s.environment_vars
    /\ fs' = o.s.fs
    /\ os_cwd' = o.s.os_cwd
    /\ clock' = clock + 1
    /\ call' = [line |-> line, branch |-> d.branch, command |-> d.command, args |-> d.args]
    /\ result' = [raised |-> o.exc, value |-> o.ret]
    /\ subprocess_run' = run

\* such a call made while no other call is under way
Finish(line, d, o, run) ==
    /\ Finished(line, d, o, run)
    /\ child' = NoChild
    /\ suggestions' = suggestions
    /\ threads' = threads
    /\ serialized' = serialized

\* the routes of a call of execute_command(line) that reaches one of the
\* branches, while the clock is below max
Taken(line, branches, max) ==
    IF clock < max THEN {d \in {Dispatch(aliases, line)} : d.branch \in branches} ELSE {}

\* the routes of a call that reaches the handler of one of the names
Dispatched(line, names, max) ==
    {d \in Taken(line, {"builtin"}, max) : d.command \in names}

\* if not command_line.strip(): return (and the unreachable "if not parts")
Blank(line, max) ==
    \E d \in Taken(line, {"blank", "no_parts"}, max) :
        Finish(line, d,
               Return(IF d.branch = "blank" THEN Session ELSE Remember(Session, line, clock),
                      CommandResult("", "", 0)),
               subprocess_run)

\* a parse that runs before the history append
ParseErrorUnrecorded(line, max) ==
    \E d \in Taken(line, {"parse_error"}, max) :
        Finish(line, d,
               Return(Session, CommandResult("", "Parse error: " \o d.command, 1)),
               subprocess_run)

\* except ValueError as e: return Parse error
ParseError(line, max) ==
    \E d \in Taken(line, {"parse_error"}, max) :
        Finish(line, d,
               Return(Remember(Session, line, clock),
                      CommandResult("", "Parse error: " \o d.command, 1)),
               subprocess_run)

\* command = parts[0].lower() on the empty list an alias expanded to
AliasFault(line, max) ==
    \E d \in Taken(line, {"alias_fault"}, max) :
        Finish(line, d, Raise(Remember(Session, line, clock), "IndexError"),
               subprocess_run)

\* a fallback that is given the command and args after alias expansion
FallbackExpanded(line, max) ==
    \E d \in Taken(line, {"fallback"}, max) :
        \E o \in _execute_system_command(Remember(Session, line, clock),
                                         Join(" ", <<d.command>> \o d.args)) :
            Finish(line, d, Caught(o),
                   Launch(Remember(Session, line, clock), Join(" ", <<d.command>> \o d.args)))

\* return self._execute_system_command(command_line)
Fallback(line, max) ==
    \E d \in Taken(line, {"fallback"}, max) :
        \E o \in _execute_system_command(Remember(Session, line, clock), line) :
            Finish(line, d, Caught(o), Launch(Remember(Session, line, clock), line))

(***************************************************************************)
(* One action per handler: a call of execute_command whose line reaches it. *)
(***************************************************************************)
\* builtin_commands[command](args) for 'cd'
Cd(line, max) ==
    \E d \in Dispatched(line, {"cd"}, max) :
        \E o \in _cmd_cd(Remember(Session, line, clock), d.args) :
            Finish(line, d, Caught(o), subprocess_run)

\* builtin_commands[command](args) for 'pwd'
Pwd(line, max) ==
    \E d \in Dispatched(line, {"pwd"}, max) :
        \E o \in _cmd_pwd(Remember(Session, line, clock), d.args) :
            Finish(line, d, Caught(o), subprocess_run)

\* builtin_commands[command](args) for 'ls' and 'dir'
Ls(line, max) ==
    \E d \in Dispatched(line, {"ls", "dir"}, max) :
        \E o \in _cmd_ls(Remember(Session, line, clock), d.args) :
            Finish(line, d, Caught(o), subprocess_run)

\* builtin_commands[command](args) for 'mkdir'
Mkdir(line, max) ==
    \E d \in Dispatched(line, {"mkdir"}, max) :
        \E o \in _cmd_mkdir(Remember(Session, line, clock), d.args) :
            Finish(line, d, Caught(o), subprocess_run)

\* builtin_commands[command](args) for 'rmdir'
Rmdir(line, max) ==
    \E d \in Dispatched(line, {"rmdir"}, max) :
        \E o \in _cmd_rmdir(Remember(Session, line, clock), d.args) :
            Finish(line, d, Caught(o), subprocess_run)

\* builtin_commands[command](args) for 'rm' and 'del'
Rm(line, max) ==
    \E d \in Dispatched(line, {"rm", "del"}, max) :
        \E o \in _cmd_rm(Remember(Session, line, clock), d.args) :
            Finish(line, d, Caught(o), subprocess_run)

\* builtin_commands[command](args) for 'touch'
Touch(line, max) ==
    \E d \in Dispatched(line, {"touch"}, max) :
        \E o \in _cmd_touch(Remember(Session, line, clock), d.args) :
            Finish(line, d, Caught(o), subprocess_run)

\* builtin_commands[command](args) for 'cat' and 'type'
Cat(line, max) ==
    \E d \in Dispatched(line, {"cat", "type"}, max) :
        \E o \in _cmd_cat(Remember(Session, line, clock), d.args) :
            Finish(line, d, Caught(o), subprocess_run)

\* builtin_commands[command](args) for 'cp' and 'copy'
Cp(line, max) ==
    \E d \in Dispatched(line, {"cp", "copy"}, max) :
        \E o \in _cmd_cp(Remember(Session, line, clock), d.args) :
            Finish(line, d, Caught(o), subprocess_run)

\* builtin_commands[command](args) for 'mv' and 'move'
Mv(line, max) ==
    \E d \in Dispatched(line, {"mv", "move"}, max) :
        \E o \in _cmd_mv(Remember(Session, line, clock), d.args) :
            Finish(line, d, Caught(o), subprocess_run)

\* builtin_commands[command](args) for 'find'
FindCmd(line, max) ==
    \E d \in Dispatched(line, {"find"}, max) :
        \E o \in _cmd_find(Remember(Session, line, clock), d.args) :
            Finish(line, d, Caught(o), subprocess_run)

\* builtin_commands[command](args) for 'ps'
Ps(line, max) ==
    \E d \in Dispatched(line, {"ps"}, max) :
        \E o \in _cmd_ps(Remember(Session, line, clock), d.args) :
            Finish(line, d, Caught(o), subprocess_run)

\* builtin_commands[command](args) for 'kill'
Kill(line, max) ==
    \E d \in Dispatched(line, {"kill"}, max) :
        \E o \in _cmd_kill(Remember(Session, line, clock), d.args) :
            Finish(line, d, Caught(o), subprocess_run)

\* builtin_commands[command](args) for 'top'
Top(line, max) ==
    \E d \in Dispatched(line, {"top"}, max) :
        \E o \in _cmd_top(Remember(Session, line, clock), d.args) :
            Finish(line, d, Caught(o), subprocess_run)

\* builtin_commands[command](args) for 'df'
Df(line, max) ==
    \E d \in Dispatched(line, {"df"}, max) :
        \E o \in _cmd_df(Remember(Session, line, clock), d.args) :
            Finish(line, d, Caught(o), subprocess_run)

\* builtin_commands[command](args) for 'du'
Du(line, max) ==
    \E d \in Dispatched(line, {"du"}, max) :
        \E o \in _cmd_du(Remember(Session, line, clock), d.args) :
            Finish(line, d, Caught(o), subprocess_run)

\* builtin_commands[command](args) for 'whoami'
Whoami(line, max) ==
    \E d \in Dispatched(line, {"whoami"}, max) :
        \E o \in _cmd_whoami(Remember(Session, line, clock), d.args) :
            Finish(line, d, Caught(o), subprocess_run)

\* builtin_commands[command](args) for 'date'
Date(line, max) ==
    \E d \in Dispatched(line, {"date"}, max) :
        \E o \in _cmd_date(Remember(Session, line, clock), d.args) :
            Finish(line, d, Caught(o), subprocess_run)

\* builtin_commands[command](args) for 'echo'
Echo(line, max) ==
    \E d \in Dispatched(line, {"echo"}, max) :
        \E o \in _cmd_echo(Remember(Session, line, clock), d.args) :
            Finish(line, d, Caught(o), subprocess_run)

\* builtin_commands[command](args) for 'env'
Env(line, max) ==
    \E d \in Dispatched(line, {"env"}, max) :
        \E o \in _cmd_env(Remember(Session, line, clock), d.args) :
            Finish(line, d, Caught(o), subprocess_run)

\* builtin_commands[command](args) for 'set'
SetCmd(line, max) ==
    \E d \in Dispatched(line, {"set"}, max) :
        \E o \in _cmd_set(Remember(Session, line, clock), d.args) :
            Finish(line, d, Caught(o), subprocess_run)

\* builtin_commands[command](args) for 'export'
Export(line, max) ==
    \E d \in Dispatched(line, {"export"}, max) :
        \E o \in _cmd_export(Remember(Session, line, clock), d.args) :
            Finish(line, d, Caught(o), subprocess_run)

\* builtin_commands[command](args) for 'history'
History(line, max) ==
    \E d \in Dispatched(line, {"history"}, max) :
        \E o \in _cmd_history(Remember(Session, line, clock), d.args) :
            Finish(line, d, Caught(o), subprocess_run)

\* builtin_commands[command](args) for 'clear' and 'cls'
Clear(line, max) ==
    \E d \in Dispatched(line, {"clear", "cls"}, max) :
        \E o \in _cmd_clear(Remember(Session, line, clock), d.args) :
            Finish(line, d, Caught(o), subprocess_run)

\* builtin_commands[command](args) for 'help'
Help(line, max) ==
    \E d \in Dispatched(line, {"help"}, max) :
        \E o \in _cmd_help(Remember(Session, line, clock), d.args) :
            Finish(line, d, Caught(o), subprocess_run)

\* builtin_commands[command](args) for 'alias'
Alias(line, max) ==
    \E d \in Dispatched(line, {"alias"}, max) :
        \E o \in _cmd_alias(Remember(Session, line, clock), d.args) :
            Finish(line, d, Caught(o), subprocess_run)

\* builtin_commands[command](args) for 'unalias'
Unalias(line, max) ==
    \E d \in Dispatched(line, {"unalias"}, max) :
        \E o \in _cmd_unalias(Remember(Session, line, clock), d.args) :
            Finish(line, d, Caught(o), subprocess_run)

\* builtin_commands[command](args) for 'which' and 'where'
Which(line, max) ==
    \E d \in Dispatched(line, {"which", "where"}, max) :
        \E o \in _cmd_which(Remember(Session, line, clock), d.args) :
            Finish(line, d, Caught(o), subprocess_run)

\* builtin_commands[command](args) for 'tree'
Tree(line, max) ==
    \E d \in Dispatched(line, {"tree"}, max) :
        \E o \in _cmd_tree(Remember(Session, line, clock), d.args) :
            Finish(line, d, Caught(o), subprocess_run)

\* builtin_commands[command](args) for 'wc'
Wc(line, max) ==
    \E d \in Dispatched(line, {"wc"}, max) :
        \E o \in _cmd_wc(Remember(Session, line, clock), d.args) :
            Finish(line, d, Caught(o), subprocess_run)

\* builtin_commands[command](args) for 'head'
HeadCmd(line, max) ==
    \E d \in Dispatched(line, {"head"}, max) :
        \E o \in _cmd_head(Remember(Session, line, clock), d.args) :
            Finish(line, d, Caught(o), subprocess_run)

\* builtin_commands[command](args) for 'tail'
TailCmd(line, max) ==
    \E d \in Dispatched(line, {"tail"}, max) :
        \E o \in _cmd_tail(Remember(Session, line, clock), d.args) :
            Finish(line, d, Caught(o), subprocess_run)

\* builtin_commands[command](args) for 'grep' and 'findstr'
Grep(line, max) ==
    \E d \in Dispatched(line, {"grep", "findstr"}, max) :
        \E o \in _cmd_grep(Remember(Session, line, clock), d.args) :
            Finish(line, d, Caught(o), subprocess_run)

(***************************************************************************)
(* execute_command as a function of the session: the outcomes of one call. *)
(***************************************************************************)
\* builtin_commands[command](args)
builtin_commands(command, s, args) ==
    CASE command = "cd" -> _cmd_cd(s, args)
      [] command = "pwd" -> _cmd_pwd(s, args)
      [] command = "ls" \/ command = "dir" -> _cmd_ls(s, args)
      [] command = "mkdir" -> _cmd_mkdir(s, args)
      [] command = "rmdir" -> _cmd_rmdir(s, args)
      [] command = "rm" \/ command = "del" -> _cmd_rm(s, args)
      [] command = "touch" -> _cmd_touch(s, args)
      [] command = "cat" \/ command = "type" -> _cmd_cat(s, args)
      [] command = "cp" \/ command = "copy" -> _cmd_cp(s, args)
      [] command = "mv" \/ command = "move" -> _cmd_mv(s, args)
      [] command = "find" -> _cmd_find(s, args)
      [] command = "ps" -> _cmd_ps(s, args)
      [] command = "kill" -> _cmd_kill(s, args)
      [] command = "top" -> _cmd_top(s, args)
      [] command = "df" -> _cmd_df(s, args)
      [] command = "du" -> _cmd_du(s, args)
      [] command = "whoami" -> _cmd_whoami(s, args)
      [] command = "date" -> _cmd_date(s, args)
      [] command = "echo" -> _cmd_echo(s, args)
      [] command = "env" -> _cmd_env(s, args)
      [] command = "set" -> _cmd_set(s, args)
      [] command = "export" -> _cmd_export(s, args)
      [] command = "history" -> _cmd_history(s, args)
      [] command = "clear" \/ command = "cls" -> _cmd_clear(s, args)
      [] command = "help" -> _cmd_help(s, args)
      [] command = "alias" -> _cmd_alias(s, args)
      [] command = "unalias" -> _cmd_unalias(s, args)
      [] command = "which" \/ command = "where" -> _cmd_which(s, args)
      [] command = "tree" -> _cmd_tree(s, args)
      [] command = "wc" -> _cmd_wc(s, args)
      [] command = "head" -> _cmd_head(s, args)
      [] command = "tail" -> _cmd_tail(s, args)
      [] command = "grep" \/ command = "findstr" -> _cmd_grep(s, args)
      [] OTHER -> {}

\* the outcomes of execute_command(command_line) from the statement after the
\* history append on, in the session s, given the route d the line takes
After(s, command_line, d) ==
    IF d.branch = "no_parts" THEN {Return(s, CommandResult("", "", 0))}
    ELSE IF d.branch = "parse_error"
    THEN {Return(s, CommandResult("", "Parse error: " \o d.command, 1))}
    ELSE IF d.branch = "alias_fault" THEN {Raise(s, "IndexError")}
    ELSE IF d.branch = "builtin"
    THEN {Caught(o) : o \in builtin_commands(d.command, s, d.args)}
    ELSE {Caught(o) : o \in _execute_system_command(s, command_line)}

\* the outcomes of execute_command(command_line) on the session s at the time
\* now, given the route d the line takes
Executed(s, command_line, now, d) ==
    IF d.branch = "blank" THEN {Return(s, CommandResult("", "", 0))}
    ELSE After(Remember(s, command_line, now), command_line, d)

\* execute_command(command_line)
execute_command(s, command_line, now) ==
    Executed(s, command_line, now, Dispatch(s.aliases, command_line))

(***************************************************************************)
(* _execute_system_command in steps: subprocess.run starts the shell,      *)
(* waits while the time runs, and returns when the shell has exited or     *)
(* raises TimeoutExpired when the timeout is over.                         *)
(***************************************************************************)
\* a timeout that is reported as a plain failure
ExpiredAsFailure ==
    /\ child.state = "running"
    /\ child.elapsed = Timeout
    /\ Finish(child.line, child.route,
              Return(Session, CommandResult("", "Command timed out", 1)),
              subprocess_run)

\* a call that does not reach the fallback, made while no shell runs
Prepared(line, max) ==
    /\ child.state = "none"
    /\ \E d \in Taken(line, {"blank", "no_parts", "parse_error", "alias_fault", "builtin"},
                      max) :
           \E o \in Executed(Session, line, clock, d) :
               Finish(line, d, o, subprocess_run)

\* subprocess.run(...) raises before a shell runs: except Exception
Refused(line, max) ==
    /\ child.state = "none"
    /\ \E d \in Taken(line, {"fallback"}, max) :
           /\ ~CanLaunch(Remember(Session, line, clock))
           /\ \E o \in _execute_system_command(Remember(Session, line, clock), line) :
                  Finish(line, d, Caught(o), Launch(Remember(Session, line, clock), line))

\* subprocess.run(...) has started the shell and waits for it
Launched(line, max) ==
    /\ child.state = "none"
    /\ \E d \in Taken(line, {"fallback"}, max) :
           /\ CanLaunch(Remember(Session, line, clock))
           /\ command_history' = Remember(Session, line, clock).command_history
           /\ subprocess_run' = Launch(Remember(Session, line, clock), line)
           /\ child' = [NoChild EXCEPT !.state = "running", !.line = line, !.route = d]
           /\ UNCHANGED <<current_dir, aliases, environment_vars, fs, os_cwd, clock,
                          call, result, suggestions, threads, serialized>>

\* a unit of the timeout passes
Tick ==
    /\ child.state = "running"
    /\ child.elapsed < Timeout
    /\ child' = [child EXCEPT !.elapsed = @ + 1]
    /\ UNCHANGED <<current_dir, command_history, aliases, environment_vars, fs,
                   os_cwd, clock, call, result, subprocess_run, suggestions,
                   threads, serialized>>

\* the shell exits within the timeout, having written what it wrote
Exited ==
    /\ child.state = "running"
    /\ \E out \in Streams("[stdout]"), err \in Streams("[stderr]"), rc \in ReturnCodes :
           child' = [child EXCEPT !.state = "exited", !.stdout = out, !.stderr = err,
                                  !.returncode = rc]
    /\ UNCHANGED <<current_dir, command_history, aliases, environment_vars, fs,
                   os_cwd, clock, call, result, subprocess_run, suggestions,
                   threads, serialized>>

\* return {"output": result.stdout, "error": result.stderr, "exit_code": ...}
Returned ==
    /\ child.state = "exited"
    /\ Finish(child.line, child.route,
              Return(Session, CommandResult(child.stdout, child.stderr, child.returncode)),
              subprocess_run)

\* except subprocess.TimeoutExpired
Expired ==
    /\ child.state = "running"
    /\ child.elapsed = Timeout
    /\ Finish(child.line, child.route,
              Return(Session, CommandResult("", "Command timed out", 124)),
              subprocess_run)

(***************************************************************************)
(* get_command_suggestions.                                                *)
(***************************************************************************)
RECURSIVE Inserted(_, _)
\* the sorted list with x put before the first element that is not below it
Inserted(list, x) ==
    IF list = <<>> THEN <<x>>
    ELSE IF StrLess(Head(list), x) THEN <<Head(list)>> \o Inserted(Tail(list), x)
    ELSE <<x>> \o list

RECURSIVE SortedList(_)
\* sorted(list), for a list of strings
SortedList(list) ==
    IF list = <<>> THEN <<>> ELSE Inserted(SortedList(Tail(list)), Head(list))

\* [cmd for cmd in builtin_commands if cmd.startswith(prefix)]
BuiltinSuggestions(prefix) == SelectSeq(BuiltinList, LAMBDA cmd : StartsWith(cmd, prefix))

\* [alias for alias in self.aliases.keys() if alias.startswith(prefix)]
AliasSuggestions(al, prefix) ==
    SelectSeq([i \in 1..Len(al) |-> al[i][1]], LAMBDA alias : StartsWith(alias, prefix))

\* the items of os.listdir(self.current_dir) that start with partial_command,
\* none when the listing raises OSError; their order is the host's
ItemSuggestions(listed, partial_command) ==
    IF listed.errno # "" THEN <<>>
    ELSE SortedSet({item \in listed.names : StartsWith(item, partial_command)})

\* if partial_command and not any(partial_command.startswith(cmd) ...)
WantsItems(partial_command) ==
    /\ partial_command # ""
    /\ ~\E i \in 1..Len(BuiltinList) : StartsWith(partial_command, BuiltinList[i])

get_command_suggestions(s, partial_command) ==
    SortedList(BuiltinSuggestions(Lower(partial_command))
               \o AliasSuggestions(s.aliases, Lower(partial_command))
               \o (IF WantsItems(partial_command)
                   THEN ItemSuggestions(listdir(s.fs, s.current_dir), partial_command)
                   ELSE <<>>))

\* a caller asks for the suggestions for partial_command
Suggest(partial_command, max) ==
    /\ clock < max
    /\ child.state = "none"
    /\ suggestions' = [partial_command |-> partial_command,
                       value |-> get_command_suggestions(Session, partial_command),
                       time |-> clock + 1]
    /\ clock' = clock + 1
    /\ UNCHANGED <<current_dir, command_history, aliases, environment_vars, fs,
                   os_cwd, call, result, subprocess_run, child, threads,
                   serialized>>

(***************************************************************************)
(* The server: every request runs execute_command on the one terminal, in  *)
(* a thread of its own.  A thread can be passed by another between the      *)
(* history append and the statements after it.                             *)
(***************************************************************************)
\* the threads inside execute_command
Busy == {t \in Threads : threads[t].pc # "idle"}

\* a thread that enters execute_command whatever the other threads do
AppendedUnguarded(t, line, max) ==
    /\ threads[t].pc = "idle"
    /\ Strip(line) # ""
    /\ clock + Cardinality(Busy) < max
    /\ command_history' = Remember(Session, line, clock).command_history
    /\ threads' = [threads EXCEPT ![t] = [pc |-> "appended", line |-> line,
                                          directory |-> current_dir, resolved |-> ""]]
    /\ UNCHANGED <<current_dir, aliases, environment_vars, fs, os_cwd, clock, call,
                   result, subprocess_run, child, suggestions, serialized>>

\* the thread t has entered execute_command(line) and appended the line to
\* the history; callers that serialize wait until no call is under way
Appended(t, line, max) ==
    /\ threads[t].pc = "idle"
    /\ Strip(line) # ""
    /\ serialized => Busy = {}
    /\ clock + Cardinality(Busy) < max
    /\ command_history' = Remember(Session, line, clock).command_history
    /\ threads' = [threads EXCEPT ![t] = [pc |-> "appended", line |-> line,
                                          directory |-> current_dir, resolved |-> ""]]
    /\ UNCHANGED <<current_dir, aliases, environment_vars, fs, os_cwd, clock, call,
                   result, subprocess_run, child, suggestions, serialized>>

\* the thread t runs the rest of execute_command: the parsing, the alias
\* check and the handler or the fallback
Handled(t) ==
    /\ threads[t].pc = "appended"
    /\ \E d \in {Dispatch(aliases, threads[t].line)} :
           \E o \in After(Session, threads[t].line, d) :
               Finished(threads[t].line, d, o,
                        IF d.branch = "fallback" THEN Launch(Session, threads[t].line)
                        ELSE subprocess_run)
    /\ threads' = [threads EXCEPT ![t] = [@ EXCEPT !.pc = "idle",
                                                  !.resolved = current_dir]]
    /\ UNCHANGED <<child, suggestions, serialized>>

(***************************************************************************)
(* The session after PythonTerminal() and the calls made on it.            *)
(***************************************************************************)
\* the tree the process starts in: its working directory /w holds the
\* directory d and the files f and .p; /p may not be entered; /h is home
InitFs ==
    [dirs |-> {"/", "/h", "/w", "/w/d", "/p"},
     files |-> {"/w/f", "/w/.p"},
     text |-> [k \in {"/w/f", "/w/.p"} |-> IF k = "/w/f" THEN "a\nb\nc\n" ELSE ""],
     locked |-> {"/p"}]

\* __init__
Init ==
    /\ current_dir = "/w"
    /\ command_history = <<>>
    /\ aliases = <<<<"ll", "ls -la">>, <<"la", "ls -a">>, <<"grep", "grep">>>>
    /\ environment_vars = os_environ
    /\ fs = InitFs
    /\ os_cwd = "/w"
    /\ clock = 0
    /\ call = [line |-> "", branch |-> "none", command |-> "", args |-> <<>>]
    /\ result = [raised |-> "", value |-> CommandResult("", "", 0)]
    /\ subprocess_run = <<>>
    /\ child = NoChild
    /\ suggestions = [partial_command |-> "", value |-> <<>>, time |-> 0]
    /\ threads = [t \in Threads |-> Idle]
    /\ serialized = TRUE

\* the number of calls of execute_command in a run
MaxCalls == 2

\* the lines a client sends
Lines ==
    {"", "  ", "echo 'a", "pwd", "PWD", "cd", "cd d", "cd ..", "cd /p", "cd f",
     "ls", "ls -la", "ll", "ll d", "alias ll=history", "alias", "mkdir d/e", "rmdir /w/d", "rm -r /w", "rm f",
     "touch g", "cat f", "cp f g", "mv d e", "find", "ps", "kill 1", "top", "df",
     "du", "whoami", "date", "echo hi", "env", "set A=1", "export B=2", "export C", "history",
     "clear", "help", "alias x=", "x", "alias a=b b=a", "a", "alias c='cd d'", "c",
     "unalias ll", "which ls", "which grep", "which ll",
     "which nosuch", "tree", "wc f", "head -n 2 f", "tail -n 0 f",
     "grep a f", "sh -c 'echo w >&2'"}

Next ==
    \E line \in Lines :
        \/ Blank(line, MaxCalls)
        \/ ParseError(line, MaxCalls)
        \/ AliasFault(line, MaxCalls)
        \/ Fallback(line, MaxCalls)
        \/ Cd(line, MaxCalls)
        \/ Pwd(line, MaxCalls)
        \/ Ls(line, MaxCalls)
        \/ Mkdir(line, MaxCalls)
        \/ Rmdir(line, MaxCalls)
        \/ Rm(line, MaxCalls)
        \/ Touch(line, MaxCalls)
        \/ Cat(line, MaxCalls)
        \/ Cp(line, MaxCalls)
        \/ Mv(line, MaxCalls)
        \/ FindCmd(line, MaxCalls)
        \/ Ps(line, MaxCalls)
        \/ Kill(line, MaxCalls)
        \/ Top(line, MaxCalls)
        \/ Df(line, MaxCalls)
        \/ Du(line, MaxCalls)
        \/ Whoami(line, MaxCalls)
        \/ Date(line, MaxCalls)
        \/ Echo(line, MaxCalls)
        \/ Env(line, MaxCalls)
        \/ SetCmd(line, MaxCalls)
        \/ Export(line, MaxCalls)
        \/ History(line, MaxCalls)
        \/ Clear(line, MaxCalls)
        \/ Help(line, MaxCalls)
        \/ Alias(line, MaxCalls)
        \/ Unalias(line, MaxCalls)
        \/ Which(line, MaxCalls)
        \/ Tree(line, MaxCalls)
        \/ Wc(line, MaxCalls)
        \/ HeadCmd(line, MaxCalls)
        \/ TailCmd(line, MaxCalls)
        \/ Grep(line, MaxCalls)

Spec == Init /\ [][Next]_vars


\* the number of calls of execute_command in a run that follows the shell
MaxLaunches == 2

\* the lines of such a run: two that move the session and two that are no
\* built-ins
FallbackLines == {"cd /p", "cd ..", "nosuch", "sh -c 'echo w >&2'"}

FallbackNext ==
    \/ \E line \in FallbackLines :
           \/ Prepared(line, MaxLaunches)
           \/ Refused(line, MaxLaunches)
           \/ Launched(line, MaxLaunches)
    \/ Tick
    \/ Exited
    \/ Returned
    \/ Expired

\* the time runs on, subprocess.run notices the end of its timeout, and the
\* thread that waits goes on when the shell has exited
FallbackSpec ==
    /\ Init
    /\ [][FallbackNext]_vars
    /\ WF_vars(Tick)
    /\ WF_vars(Expired)
    /\ WF_vars(Returned)

\* the number of calls in a run that asks for suggestions
MaxSuggestions == 3

\* the lines of such a run: they change the directory, its entries and the
\* aliases
SuggestLines == {"cd d", "cd /", "touch grep", "touch .q", "unalias ll", "alias fx=ls"}

\* the partial commands a caller asks about
Partials == {"", "f", "F", "d", ".", "l", "ls", "lsx", "g", "grep", "w", "x"}

SuggestNext ==
    \/ \E line \in SuggestLines : Prepared(line, MaxSuggestions)
    \/ \E partial_command \in Partials : Suggest(partial_command, MaxSuggestions)

SuggestSpec == Init /\ [][SuggestNext]_vars

\* the largest number of entries the history holds at the start of a run that
\* looks at long histories
MaxHistory == 52

\* the number of calls of execute_command in such a run
MaxRecalls == 2

\* command_history after the n calls "echo 1" .. "echo n" made in /w, the
\* last of them one unit of time before the run starts
Stored(n) ==
    [i \in 1..n |-> [command |-> "echo " \o ToString(i), timestamp |-> i - n - 1,
                     directory |-> "/w"]]

\* the session of Init after such calls
HistoryInit ==
    /\ current_dir = "/w"
    /\ \E n \in 0..MaxHistory : command_history = Stored(n)
    /\ aliases = <<<<"ll", "ls -la">>, <<"la", "ls -a">>, <<"grep", "grep">>>>
    /\ environment_vars = os_environ
    /\ fs = InitFs
    /\ os_cwd = "/w"
    /\ clock = 0
    /\ call = [line |-> "", branch |-> "none", command |-> "", args |-> <<>>]
    /\ result = [raised |-> "", value |-> CommandResult("", "", 0)]
    /\ subprocess_run = <<>>
    /\ child = NoChild
    /\ suggestions = [partial_command |-> "", value |-> <<>>, time |-> 0]
    /\ threads = [t \in Threads |-> Idle]
    /\ serialized = TRUE

\* the lines of such a run
Recalls == {"history", "HISTORY", "echo hi", "alias ll=history", "ll"}

HistoryNext == \E line \in Recalls : Prepared(line, MaxRecalls)

HistorySpec == HistoryInit /\ [][HistoryNext]_vars

\* the number of requests in a run of the server
MaxRequests == 3

\* the lines the clients send
Requests == {"cd d", "cd /", "touch g", "pwd", "rm g"}

\* the terminal of the server, with clients that serialize their calls or
\* clients that do not
ServerInit ==
    /\ current_dir = "/w"
    /\ command_history = <<>>
    /\ aliases = <<<<"ll", "ls -la">>, <<"la", "ls -a">>, <<"grep", "grep">>>>
    /\ environment_vars = os_environ
    /\ fs = InitFs
    /\ os_cwd = "/w"
    /\ clock = 0
    /\ call = [line |-> "", branch |-> "none", command |-> "", args |-> <<>>]
    /\ result = [raised |-> "", value |-> CommandResult("", "", 0)]
    /\ subprocess_run = <<>>
    /\ child = NoChild
    /\ suggestions = [partial_command |-> "", value |-> <<>>, time |-> 0]
    /\ threads = [t \in Threads |-> Idle]
    /\ serialized \in BOOLEAN

ServerNext ==
    \E t \in Threads :
        \/ \E line \in Requests : Appended(t, line, MaxRequests)
        \/ Handled(t)

ServerSpec == ServerInit /\ [][ServerNext]_vars

\* the number of calls of execute_command in a run that works on the aliases
MaxTableCalls == 3

\* the lines of such a run: an alias with the name of a built-in, its use and
\* its removal; calls of alias and unalias with several arguments; an alias
\* with a capital letter in its name and its use
TableLines ==
    {"alias ls='echo hi'", "ls", "LS d", "unalias ls", "ll", "alias a=b c d=e",
     "unalias ll nope la", "unalias la ll", "alias Up=pwd", "Up", "up"}

TableNext ==
    \E line \in TableLines :
        \/ Prepared(line, MaxTableCalls)
        \/ Fallback(line, MaxTableCalls)

TableSpec == Init /\ [][TableNext]_vars
(***************************************************************************)
(* The properties of the engine.                                           *)
(***************************************************************************)
\* C1: every call of execute_command ends by returning a CommandResult; no
\* exception leaves it, whatever the aliases are.
C1_NeverRaises == result.raised = ""

\* C2: every CommandResult that execute_command returns has a non-zero
\* exit_code when its error is not empty.
C2_ErrorImpliesNonZero ==
    result.raised = "" => (result.value.error # "" => result.value.exit_code # 0)

\* C3, as stated: for every line that is not blank, the CommandResult returned
\* has exit_code 0 when its error is empty, the results of the system fallback
\* included.
C3_EmptyErrorImpliesZero ==
    (Strip(call.line) # "" /\ result.raised = "")
        => (result.value.error = "" => result.value.exit_code = 0)

\* C3, amended: a CommandResult that a built-in handler, the catch around it
\* or the parse-error path returns has exit_code 0 when its error is empty;
\* the fallback hands on the return code of the host's command, which may be
\* non-zero with nothing on its error stream.
C3_BuiltinEmptyErrorImpliesZero ==
    (call.branch \in {"builtin", "parse_error"} /\ result.raised = "")
        => (result.value.error = "" => result.value.exit_code = 0)

\* mkdir made /w/d/e and returned an empty error with exit_code 0
C3_Witness ==
    /\ call.branch = "builtin"
    /\ call.command = "mkdir"
    /\ result.raised = ""
    /\ result.value.error = ""
    /\ result.value.exit_code = 0
    /\ "/w/d/e" \in fs.dirs

\* C4: the history only grows, in call order: a call with a line that is not
\* blank appends exactly one entry, holding the line, the time and the
\* directory of the call; a call with a blank line appends none; no call
\* removes or rewrites an entry.
C4_HistoryAppendOnly ==
    [][IF Strip(call'.line) = ""
       THEN command_history' = command_history
       ELSE command_history' =
                Append(command_history,
                       [command |-> call'.line, timestamp |-> clock,
                        directory |-> current_dir])]_vars

\* a blank line came after a line that changed the directory: the history
\* holds that one line, with the directory it was given in
C4_Witness ==
    /\ clock = 2
    /\ call.branch = "blank"
    /\ Len(command_history) = 1
    /\ command_history[1].command = "cd d"
    /\ command_history[1].directory = "/w"
    /\ current_dir = "/w/d"

\* C5, as stated: a line that fails to tokenize is not added to the history;
\* after the parse-error result the history is what it was before the call.
C5_ParseErrorNotRemembered ==
    [][call'.branch = "parse_error" => command_history' = command_history]_vars

\* C5, amended: a line that fails to tokenize is added to the history like
\* any other line that is not blank, since the append comes before the
\* tokenizing; the call then returns the parse-error result with exit_code 1.
C5_ParseErrorRemembered ==
    [][call'.branch = "parse_error"
       => /\ command_history' =
                 Append(command_history,
                        [command |-> call'.line, timestamp |-> clock,
                         directory |-> current_dir])
          /\ result'.raised = ""
          /\ result'.value.exit_code = 1
          /\ result'.value.output = ""
          /\ StartsWith(result'.value.error, "Parse error: ")]_vars

\* the line with the unmatched quote was the second call, and is the second
\* entry of the history
C5_Witness ==
    /\ call.branch = "parse_error"
    /\ call.line = "echo 'a"
    /\ Len(command_history) = 2
    /\ command_history[2].command = "echo 'a"
    /\ result.value.error = "Parse error: No closing quotation"

\* C6: in every reachable state current_dir names a directory that exists.
C6_CurrentDirExists == current_dir \in fs.dirs

\* C7: cd to a target that, joined to current_dir and normalized, is a
\* directory sets current_dir to that normalized path, and a pwd that follows
\* outputs current_dir; cd to a target that is no directory returns exit_code
\* 1 and leaves current_dir as it was.
C7_CdThenPwd ==
    [][/\ (call'.branch = "builtin" /\ call'.command = "cd")
           => IF isdir(fs, normpath(Resolved(Session, CdTarget(call'.args))))
              THEN current_dir' = normpath(Resolved(Session, CdTarget(call'.args)))
              ELSE /\ current_dir' = current_dir
                   /\ result'.raised = ""
                   /\ result'.value.exit_code = 1
       /\ (call'.branch = "builtin" /\ call'.command = "pwd")
           => /\ result'.value = CommandResult(current_dir, "", 0)
              /\ current_dir' = current_dir]_vars

\* pwd, right after "cd d" in /w, output /w/d
C7_Witness ==
    /\ clock = 2
    /\ Len(command_history) = 2
    /\ command_history[1].command = "cd d"
    /\ command_history[1].directory = "/w"
    /\ call.command = "pwd"
    /\ call.branch = "builtin"
    /\ result.value.output = "/w/d"

\* C8: only cd changes current_dir: a call that dispatches on another verb,
\* goes to the fallback, fails to parse or has a blank line leaves it alone.
C8_OnlyCdMoves ==
    [][current_dir' # current_dir
       => (call'.branch = "builtin" /\ call'.command = "cd")]_vars

\* after "cd d", touch made a file in /w/d and left current_dir where cd had
\* put it
C8_Witness ==
    /\ clock = 2
    /\ current_dir = "/w/d"
    /\ call.branch = "builtin"
    /\ call.command = "touch"
    /\ "/w/d/g" \in fs.files

\* C9: an alias is expanded once: a call whose first word names an alias
\* dispatches on the first word of the alias's text, followed by the words of
\* the text and of the line, and does not look that word up again.
C9_ExpandedOnce ==
    [][call'.branch \in {"builtin", "fallback"}
       => \A parts \in {shlex_split(Strip(call'.line)).parts} :
              \A word \in {Lower(Head(parts))} :
                  DictHas(aliases, word)
                  => \A body \in {shlex_split(DictGet(aliases, word))} :
                         body.ok
                         => /\ call'.command = Lower(Head(body.parts \o Tail(parts)))
                            /\ call'.args = Tail(body.parts \o Tail(parts))]_vars

\* with a -> b and b -> a, the line "a" was dispatched on "b" and the call
\* returned
C9_Witness ==
    /\ DictHas(aliases, "a") /\ DictGet(aliases, "a") = "b"
    /\ DictHas(aliases, "b") /\ DictGet(aliases, "b") = "a"
    /\ call.line = "a"
    /\ call.command = "b"
    /\ call.branch = "fallback"
    /\ result.raised = ""

\* C10: a call goes to the fallback exactly when the command after alias
\* expansion is no key of the dispatch table, and the fallback is then given
\* the line as it was passed, not the text after alias expansion.
C10_FallbackGetsRawLine ==
    [][/\ (call'.branch \in {"builtin", "fallback"} /\ call'.command \notin BuiltinNames)
           => call'.branch = "fallback"
       /\ call'.branch = "fallback"
           => /\ call'.command \notin BuiltinNames
              /\ subprocess_run'.args = call'.line
              /\ subprocess_run'.cwd = current_dir]_vars

\* the line "a", whose alias expanded it to "b", reached the shell as "a";
\* the history shows the alias being made by the call before
C10_Witness ==
    /\ call.line = "a"
    /\ call.command = "b"
    /\ call.branch = "fallback"
    /\ subprocess_run.args = "a"
    /\ Len(command_history) = 2
    /\ command_history[1].command = "alias a=b b=a"


(***************************************************************************)
(* Aliases, the environment overlay, the fallback, which, tail, history.   *)
(***************************************************************************)
\* what a caller of execute_command(line) can get back from the session s
Answers(s, line, now) ==
    {[ret |-> o.ret, exc |-> o.exc] : o \in execute_command(s, line, now)}

\* the line "V A1..Ak R1..Rm" for the tokens of an alias's text and the
\* arguments that followed the alias's name
Direct(body, rest) == Join(" ", body \o rest)

\* the lines of Lines that name an alias whose text starts with a built-in:
\* the alias's name, the tokens of its text, the arguments after the name
AliasCalls ==
    {c \in {[line |-> line, lexed |-> shlex_split(Strip(line))] : line \in Lines} :
        /\ c.lexed.ok
        /\ c.lexed.parts # <<>>
        /\ DictHas(aliases, Lower(Head(c.lexed.parts)))
        /\ shlex_split(DictGet(aliases, Lower(Head(c.lexed.parts)))).ok
        /\ shlex_split(DictGet(aliases, Lower(Head(c.lexed.parts)))).parts # <<>>}

AliasBody(c) == shlex_split(DictGet(aliases, Lower(Head(c.lexed.parts)))).parts

C12_AliasMutators ==
    [][call'.branch = "builtin" =>
       /\ (call'.command = "alias" /\ call'.args = <<>>) =>
            /\ aliases' = aliases
            /\ result'.raised = ""
            /\ result'.value =
                 CommandResult(Join("\n", [i \in 1..Len(aliases) |->
                                   "alias " \o aliases[i][1] \o "='" \o aliases[i][2] \o "'"]),
                               "", 0)
       /\ (call'.command = "alias" /\ Len(call'.args) = 1 /\ HasChar(call'.args[1], "=")) =>
            \A nc \in {Split1(call'.args[1], "=")} :
                /\ result'.raised = ""
                /\ result'.value = CommandResult("", "", 0)
                /\ IF \E i \in 1..Len(aliases) : aliases[i][1] = nc[1]
                   THEN /\ Len(aliases') = Len(aliases)
                        /\ \A i \in 1..Len(aliases) :
                             aliases'[i] = IF aliases[i][1] = nc[1]
                                           THEN <<nc[1], StripChars(nc[2], Quotes)>>
                                           ELSE aliases[i]
                   ELSE aliases' = Append(aliases, <<nc[1], StripChars(nc[2], Quotes)>>)
       /\ (call'.command = "unalias" /\ Len(call'.args) = 1) =>
            /\ result'.raised = ""
            /\ IF \E i \in 1..Len(aliases) : aliases[i][1] = call'.args[1]
               THEN /\ aliases' = SelectSeq(aliases, LAMBDA e : e[1] # call'.args[1])
                    /\ result'.value = CommandResult("", "", 0)
               ELSE /\ aliases' = aliases
                    /\ result'.value =
                         CommandResult("", "unalias: " \o call'.args[1] \o ": not found", 1)
    ]_vars

\* "alias ll=history" gave the seeded alias ll a new text at its old place, and
\* the bare "alias" after it listed the three entries in insertion order
C12_Witness ==
    /\ Len(command_history) = 2
    /\ command_history[1].command = "alias ll=history"
    /\ call.line = "alias"
    /\ result.value.output = "alias ll='history'\nalias la='ls -a'\nalias grep='grep'"

\* the lines of the output of env in the session s
EnvOutput(s) == {SplitOn(o.ret.output, "\n", <<>>) : o \in _cmd_env(s, <<>>)}

\* C13: after a call "set K=V" or "export K=V" the output of env has the line
\* K=V; the output of env has one line KEY=VALUE for each variable of the
\* overlay, in ascending order of the keys; "export K" for a K that is neither
\* in the overlay nor in the process environment leaves the overlay as it was
\* and returns exit code 0.
C13_EnvRoundTrip ==
    [][call'.branch = "builtin" =>
       /\ (/\ call'.command \in {"set", "export"}
           /\ Len(call'.args) = 1
           /\ HasChar(call'.args[1], "=")) =>
            /\ result'.value.exit_code = 0
            /\ \A lines \in EnvOutput(Session') :
                 \E i \in 1..Len(lines) : lines[i] = call'.args[1]
       /\ (call'.command = "env") =>
            /\ result'.value.exit_code = 0
            /\ \A lines \in {SplitOn(result'.value.output, "\n", <<>>)} :
                 /\ {lines[i] : i \in 1..Len(lines)}
                      = {k \o "=" \o environment_vars[k] : k \in DOMAIN environment_vars}
                 /\ \A i \in 1..Len(lines) : HasChar(lines[i], "=")
                 /\ \A i, j \in 1..Len(lines) :
                      i < j => StrLess(Split1(lines[i], "=")[1], Split1(lines[j], "=")[1])
       /\ (/\ call'.command = "export"
           /\ Len(call'.args) = 1
           /\ ~HasChar(call'.args[1], "=")
           /\ call'.args[1] \notin DOMAIN environment_vars
           /\ call'.args[1] \notin DOMAIN os_environ) =>
            /\ environment_vars' = environment_vars
            /\ result'.value = CommandResult("", "", 0)
    ]_vars

\* "set A=1" put A into the overlay and the "env" after it printed A=1 before
\* the two variables the overlay started with
C13_Witness ==
    /\ Len(command_history) = 2
    /\ command_history[1].command = "set A=1"
    /\ call.line = "env"
    /\ result.value.output = "A=1\nHOME=/h\nPATH=/bin"

\* C14: a call that reaches the fallback ends in one of three ways and always
\* ends: when the timeout has run out while the shell ran, with exit code 124,
\* the text "Command timed out" and no output; when subprocess.run could not
\* start the shell, with exit code 127 and no output; and when the shell has
\* exited, with what the shell wrote and returned.
C14_FallbackOutcomes ==
    /\ [][/\ (child.state = "running" /\ child'.state = "none") =>
               /\ child.elapsed = Timeout
               /\ result' = [raised |-> "",
                             value |-> CommandResult("", "Command timed out", 124)]
          /\ (child.state = "exited" /\ child'.state = "none") =>
               result' = [raised |-> "",
                          value |-> CommandResult(child.stdout, child.stderr,
                                                  child.returncode)]
          /\ (/\ child.state = "none"
              /\ child'.state = "none"
              /\ clock' # clock
              /\ call'.branch = "fallback") =>
               /\ result'.raised = ""
               /\ result'.value.output = ""
               /\ result'.value.exit_code = 127
          /\ (child.state = "running" /\ child'.state = "running") =>
               child'.elapsed <= Timeout
         ]_vars
    /\ (child.state # "none") ~> (child.state = "none")

\* the shell started for a line ran until the timeout was over, and the call
\* returned the timeout result
C14_Witness ==
    /\ child = NoChild
    /\ call.line = "sh -c 'echo w >&2'"
    /\ call.branch = "fallback"
    /\ subprocess_run # <<>>
    /\ subprocess_run.timeout = Timeout
    /\ result.value = CommandResult("", "Command timed out", 124)

\* C15: which NAME answers "NAME: shell builtin" for a NAME of the built-in
\* table, also when NAME is an alias as well; for any other NAME that is an
\* alias it answers "NAME: aliased to '<text>'"; for the rest it answers the
\* path the host found, or "not found" with exit code 1.
C15_WhichOrder ==
    (/\ call.branch = "builtin"
     /\ call.command \in {"which", "where"}
     /\ call.args # <<>>) =>
        /\ result.raised = ""
        /\ IF call.args[1] \in BuiltinNames
           THEN result.value = CommandResult(call.args[1] \o ": shell builtin", "", 0)
           ELSE IF \E i \in 1..Len(aliases) : aliases[i][1] = call.args[1]
           THEN \E i \in 1..Len(aliases) :
                    /\ aliases[i][1] = call.args[1]
                    /\ result.value =
                         CommandResult(call.args[1] \o ": aliased to '" \o aliases[i][2] \o "'",
                                       "", 0)
           ELSE \/ /\ result.value.exit_code = 0
                   /\ result.value.error = ""
                   /\ result.value.output # ""
                   /\ ~EndsWith(result.value.output, ": shell builtin")
                \/ result.value =
                     CommandResult("", "which: " \o call.args[1] \o ": not found", 1)

\* grep is a built-in and one of the seeded aliases, and which reported it as
\* a built-in
C15_Witness ==
    /\ call.line = "which grep"
    /\ \E i \in 1..Len(aliases) : aliases[i][1] = "grep"
    /\ "grep" \in BuiltinNames
    /\ result.value.output = "grep: shell builtin"

\* C16: a tail of one file with the count k >= 0 returns the last min(k, n) of
\* the file's n lines (as its output, which is stripped at the end), so no line
\* for k = 0.
C16_TailLastLines ==
    (/\ call.branch = "builtin"
     /\ call.command = "tail"
     /\ result.raised = ""
     /\ result.value.exit_code = 0) =>
        \A parsed \in {CountArgs("tail", call.args, 1,
                                 [lines |-> DefaultLines, files |-> <<>>, error |-> ""])} :
            (parsed.lines >= 0 /\ Len(parsed.files) = 1) =>
                \A file_lines \in {ReadLines(read(fs, Resolved(Session, parsed.files[1])).text,
                                             <<>>)} :
                    \A shown \in {IF parsed.lines <= Len(file_lines)
                                  THEN parsed.lines ELSE Len(file_lines)} :
                        result.value.output
                            = RStrip(Join("", SubSeq(file_lines,
                                                     Len(file_lines) - shown + 1,
                                                     Len(file_lines))))

\* the names in the current directory, none when it cannot be listed
Entries == listdir(fs, current_dir).names

\* C17: the list suggested for a partial command holds the entries of the
\* current directory that start with it exactly when the partial command
\* starts with no built-in name, the empty partial command included (an entry
\* that has the name of a built-in or of an alias is left aside, being
\* suggested as such).
C17_EntriesSuggested ==
    [][suggestions'.time # suggestions.time =>
       \A item \in {e \in Entries :
                       /\ e \notin BuiltinNames
                       /\ \A i \in 1..Len(aliases) : aliases[i][1] # e} :
           InSeq(item, suggestions'.value)
               <=> /\ StartsWith(item, suggestions'.partial_command)
                   /\ \A name \in BuiltinNames :
                          ~StartsWith(suggestions'.partial_command, name)
    ]_vars

\* C18: the output of history has one line for each of the last min(50, n) of
\* the n entries stored, in their order, numbered from 1, and its last line is
\* the line of the call itself.
C18_HistoryShowsLatest ==
    (call.branch = "builtin" /\ call.command = "history") =>
        \A n \in {Len(command_history)} :
            \A m \in {IF n < 50 THEN n ELSE 50} :
                \A lines \in {SplitOn(result.value.output, "\n", <<>>)} :
                    /\ result.raised = ""
                    /\ result.value.exit_code = 0
                    /\ Len(lines) = m
                    /\ \A i \in 1..m :
                         lines[i] = RJust(ToString(i), 4) \o "  "
                                        \o command_history[n - m + i].command
                    /\ lines[m] = RJust(ToString(m), 4) \o "  " \o call.line

\* history was called with more than 50 entries stored, and showed 50
C18_Witness ==
    /\ call.line = "history"
    /\ Len(command_history) = 52
    /\ StartsWith(result.value.output, "   1  echo 3\n")
    /\ EndsWith(result.value.output, "\n  50  history")

\* C19: when the callers serialize their calls, a thread that has appended its
\* line is the next to move, its handler finds the directory its history entry
\* recorded, and the call leaves the session and the result that
\* execute_command gives as one step from the session before the append, so a
\* run is a sequence of whole calls; a handler that finds another directory
\* than the one recorded is met only with callers that do not serialize.
C19_SerializedIsSequential ==
    [][\A t \in Threads :
           /\ (serialized /\ threads[t].pc = "appended") =>
                /\ threads'[t].pc = "idle"
                /\ threads'[t].resolved = threads'[t].directory
                /\ \E o \in execute_command([Session EXCEPT !.command_history = Front(@)],
                                            threads[t].line, clock) :
                       /\ Session' = o.s
                       /\ result' = [raised |-> o.exc, value |-> o.ret]
           /\ (threads'[t].pc = "idle" /\ threads'[t].resolved # threads'[t].directory) =>
                ~serialized
      ]_vars

\* without serialized callers: "touch g" was recorded in the history with the
\* directory /w, a cd of the other thread came before its handler, and the
\* handler made the file in /w/d
C19_Witness ==
    /\ ~serialized
    /\ \E t \in Threads :
           /\ threads[t] = [pc |-> "idle", line |-> "touch g", directory |-> "/w",
                            resolved |-> "/w/d"]
           /\ \E i \in 1..Len(command_history) :
                  /\ command_history[i].command = "touch g"
                  /\ command_history[i].directory = "/w"
    /\ call.line = "touch g"
    /\ "/w/d/g" \in fs.files
    /\ "/w/g" \notin fs.files

\* C20: a cd that returns an exit code other than 0 leaves current_dir as it
\* was, also when the target is a directory that the process cannot enter.
C20_FailedCdStays ==
    [][(/\ call'.branch = "builtin"
        /\ call'.command = "cd"
        /\ clock' # clock
        /\ result'.value.exit_code # 0) => current_dir' = current_dir]_vars

(***************************************************************************)
(* Aliases that shadow, calls with several arguments, names with capitals. *)
(***************************************************************************)
\* C21: a line whose first token, in lower case, is the name of an alias goes
\* where the first token of the alias's text says, with the rest of the text
\* and the line's own arguments as arguments, also when the name is that of a
\* built-in; the built-in of that name gets the line only while no alias has
\* the name.
C21_AliasShadowsBuiltin ==
    [][clock' # clock =>
       \A lexed \in {shlex_split(Strip(call'.line))} :
           (lexed.ok /\ lexed.parts # <<>>) =>
               \A name \in {Lower(Head(lexed.parts))} :
                   IF \E i \in 1..Len(aliases) : aliases[i][1] = name
                   THEN \A i \in 1..Len(aliases) :
                            aliases[i][1] = name =>
                                \A body \in {shlex_split(aliases[i][2])} :
                                    (body.ok /\ body.parts # <<>>) =>
                                        /\ call'.command = Lower(Head(body.parts))
                                        /\ call'.args
                                               = Tail(body.parts) \o Tail(lexed.parts)
                   ELSE name \in BuiltinNames =>
                            /\ call'.branch = "builtin"
                            /\ call'.command = name
                            /\ call'.args = Tail(lexed.parts)
    ]_vars

\* ls was made an alias of 'echo hi', and the call "ls" after it ran echo
C21_Witness ==
    /\ Len(command_history) = 2
    /\ command_history[1].command = "alias ls='echo hi'"
    /\ call = [line |-> "ls", branch |-> "builtin", command |-> "echo",
               args |-> <<"hi">>]
    /\ result.value = CommandResult("hi", "", 0)

\* C22: a call of alias with several arguments applies them from the left up
\* to the first one without "=", where it returns exit code 1: the
\* assignments before that argument stay, those after it are not made.  A call
\* of unalias removes the names from the left up to the first one that is no
\* alias (any more), where it returns exit code 1: the names before it stay
\* removed, those after it stay in the table.
C22_AliasArgumentsInTurn ==
    [][(clock' # clock /\ call'.branch = "builtin" /\ call'.args # <<>>) =>
       /\ call'.command = "alias" =>
            \A k \in {CHOOSE i \in 1..(Len(call'.args) + 1) :
                          /\ i <= Len(call'.args) => ~HasChar(call'.args[i], "=")
                          /\ \A j \in 1..(i - 1) : HasChar(call'.args[j], "=")} :
                /\ result'.raised = ""
                /\ result'.value =
                     IF k <= Len(call'.args)
                     THEN CommandResult("", "alias: invalid format '" \o call'.args[k] \o "'", 1)
                     ELSE CommandResult("", "", 0)
                /\ \A j \in 1..(k - 1) :
                     (\A l \in (j + 1)..(k - 1) :
                          Split1(call'.args[l], "=")[1] # Split1(call'.args[j], "=")[1])
                     => \E i \in 1..Len(aliases') :
                            aliases'[i] = <<Split1(call'.args[j], "=")[1],
                                            StripChars(Split1(call'.args[j], "=")[2], Quotes)>>
                /\ \A i \in 1..Len(aliases') :
                     \/ \E j \in 1..(k - 1) : Split1(call'.args[j], "=")[1] = aliases'[i][1]
                     \/ \E h \in 1..Len(aliases) : aliases[h] = aliases'[i]
                /\ \A h \in 1..Len(aliases) :
                     \/ \E j \in 1..(k - 1) : Split1(call'.args[j], "=")[1] = aliases[h][1]
                     \/ \E i \in 1..Len(aliases') : aliases'[i] = aliases[h]
       /\ call'.command = "unalias" =>
            \A k \in {CHOOSE i \in 1..(Len(call'.args) + 1) :
                          /\ i <= Len(call'.args) =>
                               \/ \A h \in 1..Len(aliases) : aliases[h][1] # call'.args[i]
                               \/ \E j \in 1..(i - 1) : call'.args[j] = call'.args[i]
                          /\ \A j \in 1..(i - 1) :
                               /\ \E h \in 1..Len(aliases) : aliases[h][1] = call'.args[j]
                               /\ \A l \in 1..(j - 1) : call'.args[l] # call'.args[j]} :
                /\ result'.raised = ""
                /\ result'.value =
                     IF k <= Len(call'.args)
                     THEN CommandResult("", "unalias: " \o call'.args[k] \o ": not found", 1)
                     ELSE CommandResult("", "", 0)
                /\ aliases' = SelectSeq(aliases,
                                        LAMBDA e : \A j \in 1..(k - 1) : call'.args[j] # e[1])
    ]_vars

\* "alias a=b c d=e" stopped at c with exit code 1: a is an alias, d is none
C22_Witness ==
    /\ call.line = "alias a=b c d=e"
    /\ result.value = CommandResult("", "alias: invalid format 'c'", 1)
    /\ \E i \in 1..Len(aliases) : aliases[i] = <<"a", "b">>
    /\ \A i \in 1..Len(aliases) : aliases[i][1] # "d"

\* C23: a line whose first token is, letter for letter, the name of an alias
\* goes where the alias's text says, whatever the case of the letters of the
\* name.
C23_DefinedAliasInvocable ==
    [][clock' # clock =>
       \A lexed \in {shlex_split(Strip(call'.line))} :
           (lexed.ok /\ lexed.parts # <<>>) =>
               \A i \in 1..Len(aliases) :
                   aliases[i][1] = Head(lexed.parts) =>
                       \A body \in {shlex_split(aliases[i][2])} :
                           (body.ok /\ body.parts # <<>>) =>
                               /\ call'.command = Lower(Head(body.parts))
                               /\ call'.args = Tail(body.parts) \o Tail(lexed.parts)
    ]_vars
=============================================================================
